---- MODULE Spec2Model ----
(***************************************************************************)
(* liteforge: a minimal object-relational mapping layer.  The module       *)
(* models the metadata extractor (internal/orm), the two dialect adapters  *)
(* (SQLite, Postgres), the statement helpers Exec / QueryRow / Insert and  *)
(* the repository (pkg/model) as a state machine over one database table.  *)
(*                                                                         *)
(* Go strings on which the code computes (names, tags, SQL text) are       *)
(* sequences of one-character strings, so that strings.ToLower,            *)
(* strings.ToUpper, strings.Join, strings.Fields and fmt.Sprintf are       *)
(* computed character by character.  Go type names and error messages,     *)
(* which the code only compares, are plain strings.                        *)
(***************************************************************************)
EXTENDS Integers, Sequences, FiniteSets, TLC

VARIABLES adapter, ds, mt, db, last, repo

vars == <<adapter, ds, mt, db, last, repo>>

(***************************************************************************)
(* Bounds of the model.                                                    *)
(***************************************************************************)
\* Largest number of rows the table holds (Insert is not taken beyond it).
MaxRows == 2
\* Largest value the Postgres SERIAL sequence hands out.
MaxSeq == 2
\* Largest primary-key value and id the callers pass.
MaxKey == 2
\* Largest placeholder index GetPlaceholder is called with.
MaxIndex == 12

(***************************************************************************)
(* Character-level string functions of the Go standard library.            *)
(***************************************************************************)
UpperLetters == <<"A","B","C","D","E","F","G","H","I","J","K","L","M","N","O","P","Q","R","S","T","U","V","W","X","Y","Z">>
LowerLetters == <<"a","b","c","d","e","f","g","h","i","j","k","l","m","n","o","p","q","r","s","t","u","v","w","x","y","z">>
Digits == <<"0","1","2","3","4","5","6","7","8","9">>

IndexOf(c, s) == IF \E i \in 1..Len(s) : s[i] = c
                 THEN CHOOSE i \in 1..Len(s) : s[i] = c
                 ELSE 0

ToLowerChar(c) == LET i == IndexOf(c, UpperLetters)
                  IN IF i = 0 THEN c ELSE LowerLetters[i]

ToUpperChar(c) == LET i == IndexOf(c, LowerLetters)
                  IN IF i = 0 THEN c ELSE UpperLetters[i]

\* The characters of the strings of the model.
Chars == {UpperLetters[i] : i \in 1..26} \cup {LowerLetters[i] : i \in 1..26}
             \cup {Digits[i] : i \in 1..10}
             \cup {" ", ",", "(", ")", "?", "$", "_", ":", "-", "="}

LowerOf == [c \in Chars |-> ToLowerChar(c)]
UpperOf == [c \in Chars |-> ToUpperChar(c)]

\* strings.ToLower
ToLower(s) == [i \in 1..Len(s) |-> LowerOf[s[i]]]

\* strings.ToUpper
ToUpper(s) == [i \in 1..Len(s) |-> UpperOf[s[i]]]

\* strings.Join(parts, sep)
RECURSIVE Join(_, _)
Join(parts, sep) == IF Len(parts) = 0 THEN <<>>
                    ELSE IF Len(parts) = 1 THEN parts[1]
                    ELSE parts[1] \o sep \o Join(Tail(parts), sep)

\* strings.Contains(s, sub)
Contains(s, sub) == \E i \in 0..(Len(s) - Len(sub)) : SubSeq(s, i + 1, i + Len(sub)) = sub

\* strings.Fields(s): the maximal runs of non-space characters of s, in order.
Fields(s) ==
    LET n == Len(s)
        starts == {i \in 1..n : s[i] # " " /\ (i = 1 \/ s[i - 1] = " ")}
        ends == {j \in 1..n : s[j] # " " /\ (j = n \/ s[j + 1] = " ")}
        kth(S, k) == CHOOSE i \in S : Cardinality({j \in S : j <= i}) = k
    IN [k \in 1..Cardinality(starts) |-> SubSeq(s, kth(starts, k), kth(ends, k))]

\* fmt.Sprintf("%d", n)
RECURSIVE Itoa(_)
Itoa(n) == IF n < 0 THEN <<"-">> \o Itoa(0 - n)
           ELSE IF n < 10 THEN <<Digits[n + 1]>>
           ELSE Itoa(n \div 10) \o <<Digits[(n % 10) + 1]>>

(***************************************************************************)
(* Errors.  An error is the chain of its messages, outermost first         *)
(* (fmt.Errorf with %w puts a message in front of the chain it wraps);    *)
(* the nil error is the empty chain.                                       *)
(***************************************************************************)
NoErr == <<>>
NewErr(msg) == <<msg>>
Wrap(msg, err) == <<msg>> \o err

\* sql.ErrNoRows
ErrNoRows == <<"sql: no rows in result set">>

\* errors.Is(err, target) for a target that is a single sentinel error.
ErrorsIs(err, target) == \E i \in 1..Len(err) : SubSeq(err, i, Len(err)) = target

\* strings.Contains(err.Error(), msg) for a whole message msg.
ErrContains(err, msg) == \E i \in 1..Len(err) : err[i] = msg

(***************************************************************************)
(* Models.  A model type is a Go struct type: its name and its fields in   *)
(* declaration order, each with its name, its Go type, its pk tag and its  *)
(* db tag.  A model value has a form (how it is passed as `any`) and the   *)
(* values of its fields.                                                   *)
(***************************************************************************)
Field(name, type, pk, dbTag) == [name |-> name, type |-> type, pk |-> pk, db |-> dbTag]

ModelType(name, fields) == [name |-> name, fields |-> fields]

\* How a model reaches a function taking `any`.
\*   "ptr": non-nil pointer to a struct      "struct": struct value
\*   "nilptr": nil pointer to a struct         "nil": untyped nil
\*   "nonstruct": a non-struct value           "ptrnonstruct": pointer to a non-struct
Forms == {"ptr", "struct", "nilptr", "nil", "nonstruct", "ptrnonstruct"}

NumField(t) == Len(t.fields)

\* A model value: its form, its type and the values of its fields.
Model(form, type, vals) == [form |-> form, type |-> type, vals |-> vals]

\* reflect.TypeOf(model).Name() once a pointer is dereferenced.  The
\* non-struct value of the model is a Go string, the pointer to a
\* non-struct a *int.
TypeName(m) == CASE m.form \in {"ptr", "struct", "nilptr"} -> m.type.name
                 [] m.form = "nonstruct" -> <<"s","t","r","i","n","g">>
                 [] OTHER -> <<"i","n","t">>

(***************************************************************************)
(* Metadata extractor (internal/orm).  A result with panic = TRUE is a     *)
(* run-time panic of the reflect package.                                  *)
(***************************************************************************)
\* reflect.TypeOf(nil) is nil and t.Kind() on it panics.
GetTableName(m) ==
    IF m.form = "nil" THEN [panic |-> TRUE, name |-> <<>>]
    ELSE [panic |-> FALSE, name |-> ToLower(TypeName(m))]

\* val.Type() panics on the zero Value (nil, nil pointer) and val.NumField()
\* panics on a value that is not a struct.
\* A GetFieldInfo that lists the columns in reverse (variant of GetFieldInfo,
\* to be told apart by C19).
GetFieldInfoReversed(m) ==
    IF m.form \notin {"ptr", "struct"}
    THEN [panic |-> TRUE, columns |-> <<>>, values |-> <<>>]
    ELSE [panic |-> FALSE,
          columns |-> [i \in 1..NumField(m.type) |->
                          ToLower(m.type.fields[NumField(m.type) + 1 - i].name)],
          values |-> [i \in 1..NumField(m.type) |-> m.vals[i]]]

GetFieldInfo(m) ==
    IF m.form \notin {"ptr", "struct"}
    THEN [panic |-> TRUE, columns |-> <<>>, values |-> <<>>]
    ELSE [panic |-> FALSE,
          columns |-> [i \in 1..NumField(m.type) |-> ToLower(m.type.fields[i].name)],
          values |-> [i \in 1..NumField(m.type) |-> m.vals[i]]]

\* The index of the last tagged field (variant of FirstPk, to be told apart
\* by C16).
LastPk(t) ==
    LET tagged == {i \in 1..NumField(t) : t.fields[i].pk = "true"}
    IN IF tagged = {} THEN 0 ELSE CHOOSE i \in tagged : \A j \in tagged : i >= j

\* The index of the first field, in declaration order, tagged pk:"true"; 0 if none.
FirstPk(t) ==
    LET tagged == {i \in 1..NumField(t) : t.fields[i].pk = "true"}
    IN IF tagged = {} THEN 0 ELSE CHOOSE i \in tagged : \A j \in tagged : i <= j

\* errors.New("model has no primary key field (tag: ...)")
NoPkMsg == "model has no primary key field"

\* A lookup that falls back on the first field when none is tagged (variant
\* of GetPrimaryKeyColumn, to be told apart by C14).
GetPrimaryKeyColumnDefaulting(m) ==
    IF m.form \notin {"ptr", "struct"}
    THEN [panic |-> TRUE, err |-> NoErr, col |-> <<>>]
    ELSE [panic |-> FALSE, err |-> NoErr,
          col |-> ToLower(m.type.fields[IF FirstPk(m.type) = 0 THEN 1
                                        ELSE FirstPk(m.type)].name)]

GetPrimaryKeyColumn(m) ==
    IF m.form \notin {"ptr", "struct"}
    THEN [panic |-> TRUE, err |-> NoErr, col |-> <<>>]
    ELSE LET i == FirstPk(m.type)
         IN IF i = 0
            THEN [panic |-> FALSE, err |-> NewErr(NoPkMsg), col |-> <<>>]
            ELSE [panic |-> FALSE, err |-> NoErr, col |-> ToLower(m.type.fields[i].name)]

\* GetPrimaryKeyValue: the value of the primary-key field and its reflect kind.
GetPrimaryKeyValue(m) ==
    IF m.form \notin {"ptr", "struct"}
    THEN [panic |-> TRUE, err |-> NoErr, value |-> 0, kind |-> ""]
    ELSE LET i == FirstPk(m.type)
         IN IF i = 0
            THEN [panic |-> FALSE, err |-> NewErr(NoPkMsg), value |-> 0, kind |-> ""]
            ELSE [panic |-> FALSE, err |-> NoErr,
                  value |-> m.vals[i], kind |-> m.type.fields[i].type]

(***************************************************************************)
(* Dialect adapters.                                                       *)
(***************************************************************************)
Adapters == {"sqlite", "postgres"}

IntegerTypes == {"int", "int64", "int32", "int16", "int8"}
FloatTypes == {"float64", "float32"}

\* A type switch that knows int alone among the integers (variant of
\* SQLiteSqlType, to be told apart by C24).
SQLiteSqlTypeIntOnly(goType) ==
    CASE goType = "int" -> <<"I","N","T","E","G","E","R">>
      [] goType = "string" -> <<"T","E","X","T">>
      [] goType \in FloatTypes -> <<"R","E","A","L">>
      [] goType = "bool" -> <<"B","O","O","L","E","A","N">>
      [] OTHER -> <<"T","E","X","T">>

\* The type switch of SQLiteAdapter.CreateTableSQL.
SQLiteSqlType(goType) ==
    CASE goType \in IntegerTypes -> <<"I","N","T","E","G","E","R">>
      [] goType = "string" -> <<"T","E","X","T">>
      [] goType \in FloatTypes -> <<"R","E","A","L">>
      [] goType = "bool" -> <<"B","O","O","L","E","A","N">>
      [] OTHER -> <<"T","E","X","T">>

\* The type switch of PostgresAdapter.CreateTableSQL.
PostgresSqlType(goType) ==
    CASE goType \in IntegerTypes -> <<"I","N","T","E","G","E","R">>
      [] goType = "string" -> <<"T","E","X","T">>
      [] goType \in FloatTypes -> <<"D","O","U","B","L","E"," ","P","R","E","C","I","S","I","O","N">>
      [] goType = "bool" -> <<"B","O","O","L","E","A","N">>
      [] OTHER -> <<"T","E","X","T">>

SQLiteColumnType(f) ==
    IF f.pk = "true" THEN SQLiteSqlType(f.type) \o <<" ","P","R","I","M","A","R","Y"," ","K","E","Y">>
    ELSE SQLiteSqlType(f.type)

PostgresColumnType(f) ==
    IF f.pk = "true"
    THEN (IF Contains(PostgresSqlType(f.type), <<"I","N","T","E","G","E","R">>)
          THEN <<"S","E","R","I","A","L"," ","P","R","I","M","A","R","Y"," ","K","E","Y">>
          ELSE PostgresSqlType(f.type) \o <<" ","P","R","I","M","A","R","Y"," ","K","E","Y">>)
    ELSE PostgresSqlType(f.type)

\* The db tag as written (variant of ColumnConstraint, to be told apart by C8).
ColumnConstraintVerbatim(f) == f.db

\* columnConstraint: the db tag in upper case ("" when there is no db tag).
ColumnConstraint(f) == IF f.db # <<>> THEN ToUpper(f.db) ELSE <<>>

\* fmt.Sprintf("%s %s %s", columnName, sqlType, columnConstraint)
ColumnDefinition(f, sqlType) == ToLower(f.name) \o <<" ">> \o sqlType \o <<" ">> \o ColumnConstraint(f)

\* A statement without IF NOT EXISTS (variant of CreateQuery, to be told
\* apart by C9).
CreateQueryUnguarded(tableName, defs) ==
    <<"C","R","E","A","T","E"," ","T","A","B","L","E"," ">> \o tableName \o <<" ","(">> \o Join(defs, <<","," ">>) \o <<")">>

\* fmt.Sprintf("CREATE TABLE IF NOT EXISTS %s (%s)", tableName, strings.Join(defs, ", "))
CreateQuery(tableName, defs) ==
    <<"C","R","E","A","T","E"," ","T","A","B","L","E"," ","I","F"," ","N","O","T"," ","E","X","I","S","T","S"," ">> \o tableName \o <<" ","(">> \o Join(defs, <<","," ">>) \o <<")">>

NilModelMsg == "no model passed in. model was nil"
NotStructMsg == "model must be a struct or pointer to struct"

SQLiteColumnDefinitions(t) ==
    [i \in 1..NumField(t) |-> ColumnDefinition(t.fields[i], SQLiteColumnType(t.fields[i]))]

PostgresColumnDefinitions(t) ==
    [i \in 1..NumField(t) |-> ColumnDefinition(t.fields[i], PostgresColumnType(t.fields[i]))]

\* The validation both CreateTableSQL methods share, then the loop over the
\* fields; val.Type() panics on the zero Value a nil pointer dereferences to.
SQLiteCreateTableSQL(m) ==
    IF m.form = "nil" THEN [panic |-> FALSE, err |-> NewErr(NilModelMsg), query |-> <<>>]
    ELSE IF m.form \in {"nonstruct", "ptrnonstruct"}
    THEN [panic |-> FALSE, err |-> NewErr(NotStructMsg), query |-> <<>>]
    ELSE IF m.form = "nilptr" THEN [panic |-> TRUE, err |-> NoErr, query |-> <<>>]
    ELSE [panic |-> FALSE, err |-> NoErr,
          query |-> CreateQuery(GetTableName(m).name, SQLiteColumnDefinitions(m.type))]

PostgresCreateTableSQL(m) ==
    IF m.form = "nil" THEN [panic |-> FALSE, err |-> NewErr(NilModelMsg), query |-> <<>>]
    ELSE IF m.form \in {"nonstruct", "ptrnonstruct"}
    THEN [panic |-> FALSE, err |-> NewErr(NotStructMsg), query |-> <<>>]
    ELSE IF m.form = "nilptr" THEN [panic |-> TRUE, err |-> NoErr, query |-> <<>>]
    ELSE [panic |-> FALSE, err |-> NoErr,
          query |-> CreateQuery(GetTableName(m).name, PostgresColumnDefinitions(m.type))]

\* A placeholder built from the last digit of the index (variant of
\* PostgresGetPlaceholder, to be told apart by C7).
PostgresGetPlaceholderLastDigit(index) == <<"$">> \o Itoa(index % 10)

SQLiteGetPlaceholder(index) == <<"?">>

\* fmt.Sprintf("$%d", index)
PostgresGetPlaceholder(index) == <<"$">> \o Itoa(index)

\* Dispatch through the DBAdapter interface.
AdapterCreateTableSQL(a, m) ==
    IF a = "sqlite" THEN SQLiteCreateTableSQL(m) ELSE PostgresCreateTableSQL(m)

AdapterGetPlaceholder(a, index) ==
    IF a = "sqlite" THEN SQLiteGetPlaceholder(index) ELSE PostgresGetPlaceholder(index)

(***************************************************************************)
(* Values held by model fields and table cells.                            *)
(***************************************************************************)
IntV(n) == [t |-> "int", i |-> n, s |-> ""]
StrV(x) == [t |-> "str", i |-> 0, s |-> x]
BoolV(b) == [t |-> "bool", i |-> IF b THEN 1 ELSE 0, s |-> ""]
NullV == [t |-> "null", i |-> 0, s |-> ""]

\* The zero value of a Go type.
ZeroValue(goType) ==
    CASE goType \in IntegerTypes -> IntV(0)
      [] goType = "string" -> StrV("")
      [] goType = "bool" -> BoolV(FALSE)
      [] OTHER -> IntV(0)

ZeroVals(t) == [i \in 1..NumField(t) |-> ZeroValue(t.fields[i].type)]

(***************************************************************************)
(* The database engine behind *sql.DB: one table, created by a CREATE      *)
(* TABLE statement the engine parses from its text, and the four DML       *)
(* statements the package sends, which reach the engine as their parts     *)
(* (kind, table, columns, placeholders, where column, arguments).          *)
(***************************************************************************)
EmptyDB == [exists |-> FALSE, name |-> <<>>, cols |-> <<>>, rows |-> {},
            seq |-> 1, lastRowid |-> 0]

\* strings.Split(s, ","), as the engine's parser separates column definitions.
SplitComma(s) ==
    LET seps == {i \in 1..Len(s) : s[i] = ","}
        cut(k) == IF k = 0 THEN 0
                  ELSE IF k > Cardinality(seps) THEN Len(s) + 1
                  ELSE CHOOSE i \in seps : Cardinality({j \in seps : j <= i}) = k
    IN [k \in 1..(Cardinality(seps) + 1) |-> SubSeq(s, cut(k - 1) + 1, cut(k) - 1)]

TypeWords == {<<"I","N","T","E","G","E","R">>, <<"T","E","X","T">>, <<"R","E","A","L">>, <<"B","O","O","L","E","A","N">>, <<"S","E","R","I","A","L">>}

\* The column constraints the engine's grammar knows, read left to right.
RECURSIVE ParseConstraints(_)
ParseConstraints(toks) ==
    IF toks = <<>> THEN [ok |-> TRUE, pk |-> FALSE, notnull |-> FALSE, unique |-> FALSE]
    ELSE IF Len(toks) >= 2 /\ toks[1] = <<"P","R","I","M","A","R","Y">> /\ toks[2] = <<"K","E","Y">>
    THEN [ParseConstraints(SubSeq(toks, 3, Len(toks))) EXCEPT !.pk = TRUE]
    ELSE IF Len(toks) >= 2 /\ toks[1] = <<"N","O","T">> /\ toks[2] = <<"N","U","L","L">>
    THEN [ParseConstraints(SubSeq(toks, 3, Len(toks))) EXCEPT !.notnull = TRUE]
    ELSE IF toks[1] = <<"U","N","I","Q","U","E">>
    THEN [ParseConstraints(Tail(toks)) EXCEPT !.unique = TRUE]
    ELSE [ok |-> FALSE, pk |-> FALSE, notnull |-> FALSE, unique |-> FALSE]

BadColumn == [ok |-> FALSE, name |-> <<>>, type |-> <<>>, auto |-> FALSE, pk |-> FALSE,
              notnull |-> FALSE, unique |-> FALSE]

\* The number of tokens of the type at the head of toks[2..]; 0 when it is
\* not a type.
TypeLen(toks) ==
    IF Len(toks) >= 3 /\ toks[2] = <<"D","O","U","B","L","E">> /\ toks[3] = <<"P","R","E","C","I","S","I","O","N">> THEN 2
    ELSE IF Len(toks) >= 2 /\ toks[2] \in TypeWords THEN 1
    ELSE 0

\* The column named and typed by toks, with the constraints c.
Column(a, toks, c) ==
    IF ~c.ok THEN BadColumn
    ELSE [ok |-> TRUE, name |-> toks[1],
          type |-> IF toks[2] = <<"D","O","U","B","L","E">> THEN <<"D","O","U","B","L","E"," ","P","R","E","C","I","S","I","O","N">> ELSE toks[2],
          auto |-> IF a = "sqlite" THEN toks[2] = <<"I","N","T","E","G","E","R">> /\ c.pk ELSE toks[2] = <<"S","E","R","I","A","L">>,
          pk |-> c.pk, notnull |-> c.notnull \/ (a = "postgres" /\ c.pk),
          unique |-> c.unique \/ c.pk]

ParseTokens(a, toks) ==
    LET typeLen == TypeLen(toks)
    IN IF Len(toks) < 2 \/ typeLen = 0 THEN BadColumn
       ELSE Column(a, toks, ParseConstraints(SubSeq(toks, 2 + typeLen, Len(toks))))

\* One column definition: <name> <type> <constraint>...  An INTEGER PRIMARY
\* KEY column of SQLite is the row id, and a SERIAL column of Postgres draws
\* from its sequence: both are generated by the engine when an INSERT leaves
\* them out.
ParseColumn(a, def) == ParseTokens(a, Fields(def))

NoTable == [ok |-> FALSE, ifNotExists |-> FALSE, table |-> <<>>, cols |-> <<>>]

ParseColumns(a, defs) == [i \in 1..Len(defs) |-> ParseColumn(a, defs[i])]

\* The words the dialect reserves among the names the models give tables:
\* Postgres reads user as CURRENT_USER.
ReservedWords(a) == IF a = "postgres" THEN {<<"u","s","e","r">>} ELSE {}

\* The table the words before the parenthesis (head) and the columns make.
ParseTable(a, head, cols) ==
    LET ine == head = <<<<"C","R","E","A","T","E">>, <<"T","A","B","L","E">>, <<"I","F">>, <<"N","O","T">>, <<"E","X","I","S","T","S">>, head[Len(head)]>>
        plain == head = <<<<"C","R","E","A","T","E">>, <<"T","A","B","L","E">>, head[Len(head)]>>
    IN IF Len(head) = 0 \/ ~(ine \/ plain) THEN NoTable
       ELSE [ok |-> /\ head[Len(head)] \notin ReservedWords(a)
                    /\ \A i \in 1..Len(cols) : cols[i].ok
                    /\ \A i, j \in 1..Len(cols) : cols[i].name = cols[j].name => i = j
                    /\ Cardinality({i \in 1..Len(cols) : cols[i].pk}) <= 1,
             ifNotExists |-> ine, table |-> head[Len(head)], cols |-> cols]

\* CREATE TABLE [IF NOT EXISTS] <name> (<column definition>, ...)
ParseCreate(a, query) ==
    LET p == IndexOf("(", query)
    IN IF p = 0 \/ query[Len(query)] # ")" THEN NoTable
       ELSE ParseTable(a, Fields(SubSeq(query, 1, p - 1)),
                       ParseColumns(a, SplitComma(SubSeq(query, p + 1, Len(query) - 1))))

\* The engine creating the table c describes.
CreateParsed(d, c, fail) ==
    IF fail # "none" THEN [stage |-> fail, db |-> d]
    ELSE IF ~c.ok THEN [stage |-> "prepare", db |-> d]
    ELSE IF d.exists /\ d.name = c.table
    THEN [stage |-> IF c.ifNotExists THEN "none" ELSE "exec", db |-> d]
    ELSE [stage |-> "none",
          db |-> [exists |-> TRUE, name |-> c.table,
                  cols |-> [i \in 1..Len(c.cols) |->
                               [name |-> c.cols[i].name, type |-> c.cols[i].type,
                                auto |-> c.cols[i].auto,
                                pk |-> c.cols[i].pk, notnull |-> c.cols[i].notnull,
                                unique |-> c.cols[i].unique]],
                  rows |-> {}, seq |-> 1, lastRowid |-> d.lastRowid]]

\* db.Exec of a CREATE TABLE statement.  fail is a failure of the engine
\* itself ("none" when it works).  The result is the error stage
\* ("none", "prepare", "exec") and the database afterwards.
EngineCreate(a, d, query, fail) == CreateParsed(d, ParseCreate(a, query), fail)

\* A DML statement as it reaches the engine.
Stmt(kind, table, cols, phs, whereCol, wherePh, returning, args) ==
    [kind |-> kind, text |-> <<>>, table |-> table, cols |-> cols, phs |-> phs,
     whereCol |-> whereCol, wherePh |-> wherePh, returning |-> returning, args |-> args]

\* A CREATE TABLE statement reaches the engine as its text.
CreateStmt(query) ==
    [kind |-> "CREATE", text |-> query, table |-> <<>>, cols |-> <<>>, phs |-> <<>>,
     whereCol |-> <<>>, wherePh |-> <<>>, returning |-> <<>>, args |-> <<>>]

\* The engine's reading of a decimal number; -1 when s is not one.
RECURSIVE Atoi(_)
Atoi(s) == IF Len(s) = 0 \/ IndexOf(s[Len(s)], Digits) = 0 THEN 0 - 1
           ELSE IF Len(s) = 1 THEN IndexOf(s[1], Digits) - 1
           ELSE IF Atoi(SubSeq(s, 1, Len(s) - 1)) < 0 THEN 0 - 1
           ELSE 10 * Atoi(SubSeq(s, 1, Len(s) - 1)) + IndexOf(s[Len(s)], Digits) - 1

\* The placeholders of a statement in the order of its text.
AllPhs(st) == st.phs \o (IF st.kind = "INSERT" THEN <<>> ELSE <<st.wherePh>>)

\* The argument position a placeholder stands for: SQLite's "?" the position
\* of the placeholder in the text, Postgres's "$n" the number n; 0 when the
\* engine does not accept it.
PhIndex(a, ph, pos) ==
    IF a = "sqlite" THEN (IF ph = <<"?">> THEN pos ELSE 0)
    ELSE IF Len(ph) >= 2 /\ ph[1] = "$" /\ ph[2] # "0" /\ Atoi(Tail(ph)) >= 1 THEN Atoi(Tail(ph))
    ELSE 0

PhIndexes(a, st) ==
    LET phs == AllPhs(st)
    IN [k \in 1..Len(phs) |-> PhIndex(a, phs[k], k)]

Max(S) == IF S = {} THEN 0 ELSE CHOOSE x \in S : \A y \in S : y <= x

\* The number of arguments a statement whose placeholders stand for the
\* positions idx takes (driver.Stmt.NumInput).
NumInput(idx) == Max({idx[k] : k \in 1..Len(idx)})

ColIndex(d, name) ==
    LET found == {i \in 1..Len(d.cols) : d.cols[i].name = name}
    IN IF found = {} THEN 0 ELSE CHOOSE i \in found : \A j \in found : i <= j

\* What the engine rejects when it prepares the statement.
PrepareFails(d, st, idx) ==
    \/ ~d.exists
    \/ d.name # st.table
    \/ \E i \in 1..Len(st.cols) : ColIndex(d, st.cols[i]) = 0
    \/ st.kind \in {"INSERT", "UPDATE", "SELECT"} /\ Len(st.cols) = 0
    \/ st.kind \in {"INSERT", "UPDATE"} /\ Len(st.phs) # Len(st.cols)
    \/ st.kind # "INSERT" /\ ColIndex(d, st.whereCol) = 0
    \/ st.returning # <<>> /\ ColIndex(d, st.returning) = 0
    \/ \E k \in 1..Len(idx) : idx[k] = 0
    \/ {idx[k] : k \in 1..Len(idx)} # 1..NumInput(idx)

\* The argument bound to the k-th placeholder of the statement.
Bound(st, idx, k) == st.args[idx[k]]

\* SQL's = : NULL equals nothing.
SqlEq(v, w) == v.t # "null" /\ w.t # "null" /\ v = w

\* The rows the WHERE clause selects.
Matching(d, st, idx) ==
    LET col == ColIndex(d, st.whereCol)
        arg == Bound(st, idx, Len(idx))
    IN {r \in d.rows : SqlEq(r.vals[col], arg)}

\* NOT NULL and UNIQUE (PRIMARY KEY) constraints over a set of rows.
ConstraintsHold(d, rows) ==
    \A i \in 1..Len(d.cols) :
        /\ d.cols[i].notnull => \A r \in rows : r.vals[i].t # "null"
        /\ d.cols[i].unique =>
               \A r1, r2 \in rows : SqlEq(r1.vals[i], r2.vals[i]) => r1 = r2

NextRowid(d) == Max({r.rowid : r \in d.rows}) + 1

\* The position of a table column in the statement's column list; 0 if the
\* statement does not name it.
Listed(st, name) ==
    LET found == {k \in 1..Len(st.cols) : st.cols[k] = name}
    IN IF found = {} THEN 0 ELSE CHOOSE k \in found : \A j \in found : k <= j

\* The row an INSERT adds: a generated column takes the row id (SQLite) or
\* the next value of the sequence (Postgres), a listed column its argument,
\* any other column NULL.
InsertedRow(a, d, st, idx) ==
    LET rowid == NextRowid(d)
    IN [rowid |-> rowid,
        vals |-> [i \in 1..Len(d.cols) |->
                    LET k == Listed(st, d.cols[i].name)
                    IN IF k # 0 THEN Bound(st, idx, k)
                       ELSE IF d.cols[i].auto
                       THEN IntV(IF a = "sqlite" THEN rowid ELSE d.seq)
                       ELSE NullV]]

UsesSeq(a, d, st) ==
    a = "postgres" /\ \E i \in 1..Len(d.cols) :
        d.cols[i].auto /\ \A k \in 1..Len(st.cols) : st.cols[k] # d.cols[i].name

\* The rows after an UPDATE: the selected rows with the SET columns replaced.
UpdatedRows(d, st, idx) ==
    LET hit == Matching(d, st, idx)
        set == [i \in 1..Len(d.cols) |-> Listed(st, d.cols[i].name)]
    IN {IF r \in hit
        THEN [r EXCEPT !.vals = [i \in 1..Len(d.cols) |->
                 IF set[i] # 0 THEN Bound(st, idx, set[i]) ELSE r.vals[i]]]
        ELSE r : r \in d.rows}

NoRow == [found |-> FALSE, vals |-> <<>>]

\* The first selected row, projected on the statement's columns in their order.
SelectedRow(d, st, idx) ==
    LET hit == Matching(d, st, idx)
    IN IF hit = {} THEN NoRow
       ELSE LET r == CHOOSE x \in hit : \A y \in hit : x.rowid <= y.rowid
            IN [found |-> TRUE,
                vals |-> [k \in 1..Len(st.cols) |-> r.vals[ColIndex(d, st.cols[k])]]]

EngineFailed(d, stage) == [stage |-> stage, db |-> d, affected |-> 0, row |-> NoRow]

\* INSERT of the row r.
RunInsert(a, d, st, r) ==
    IF ~ConstraintsHold(d, d.rows \cup {r}) THEN EngineFailed(d, "exec")
    ELSE [stage |-> "none",
          db |-> [d EXCEPT !.rows = d.rows \cup {r},
                           !.seq = IF UsesSeq(a, d, st) THEN d.seq + 1 ELSE d.seq,
                           !.lastRowid = IF a = "sqlite" THEN r.rowid ELSE d.lastRowid],
          affected |-> 1,
          row |-> IF st.returning = <<>> THEN NoRow
                  ELSE [found |-> TRUE, vals |-> <<r.vals[ColIndex(d, st.returning)]>>]]

\* UPDATE that turns the table's rows into rows.
RunUpdate(d, rows, affected) ==
    IF ~ConstraintsHold(d, rows) THEN EngineFailed(d, "exec")
    ELSE [stage |-> "none", db |-> [d EXCEPT !.rows = rows], affected |-> affected,
          row |-> NoRow]

\* DELETE of the rows hit.
RunDelete(d, hit) ==
    [stage |-> "none", db |-> [d EXCEPT !.rows = d.rows \ hit],
     affected |-> Cardinality(hit), row |-> NoRow]

\* The statement whose placeholders stand for the positions idx, prepared
\* and executed.
RunPrepared(a, d, st, fail, idx) ==
    IF fail = "prepare" \/ PrepareFails(d, st, idx) THEN EngineFailed(d, "prepare")
    ELSE IF fail = "exec" \/ Len(st.args) # NumInput(idx) THEN EngineFailed(d, "exec")
    ELSE CASE st.kind = "INSERT" -> RunInsert(a, d, st, InsertedRow(a, d, st, idx))
           [] st.kind = "UPDATE" -> RunUpdate(d, UpdatedRows(d, st, idx),
                                              Cardinality(Matching(d, st, idx)))
           [] st.kind = "DELETE" -> RunDelete(d, Matching(d, st, idx))
           [] OTHER -> [stage |-> "none", db |-> d, affected |-> 0,
                        row |-> SelectedRow(d, st, idx)]

\* The engine running one DML statement: the stage at which it failed
\* ("none": it did not), the database afterwards, the rows affected and,
\* for a SELECT or a RETURNING clause, the row handed back.
EngineRun(a, d, st, fail) == RunPrepared(a, d, st, fail, PhIndexes(a, st))

(***************************************************************************)
(* Statement helpers of internal/orm: Exec, QueryRow, Insert, CreateTable. *)
(* ds is the *Datastore handed in: "ok", "nilDS" (a nil *Datastore),       *)
(* "nilDB" (its DB is nil) or "nilAdapter" (its Adapter is nil).  a is the *)
(* dialect of the connection.  An outcome holds what the call returned     *)
(* (or that it panicked), the statements it sent to the database, the      *)
(* database afterwards and, for FindByID, the destination model's fields.  *)
(***************************************************************************)
DsKinds == {"ok", "nilDS", "nilDB", "nilAdapter"}

\* A nil sql.Result.
NilResult == [nil |-> TRUE, lastInsertId |-> 0, idOk |-> FALSE, rowsAffected |-> 0]

\* The driver's result of an Exec: go-sqlite3 reports the connection's last
\* insert row id, lib/pq answers LastInsertId() with an error.
\* A driver result that always counts one row (variant of DriverResult, to
\* be told apart by C23).
DriverResultOneRow(a, d, affected) ==
    [nil |-> FALSE, lastInsertId |-> IF a = "sqlite" THEN d.lastRowid ELSE 0,
     idOk |-> a = "sqlite", rowsAffected |-> 1]

DriverResult(a, d, affected) ==
    [nil |-> FALSE, lastInsertId |-> IF a = "sqlite" THEN d.lastRowid ELSE 0,
     idOk |-> a = "sqlite", rowsAffected |-> affected]

\* postgresResult{lastInsertID: id, rowsAffected: 1}
PostgresResult(id, affected) ==
    [nil |-> FALSE, lastInsertId |-> id, idOk |-> TRUE, rowsAffected |-> affected]

Outcome(panic, err, res, stmts, d, out) ==
    [panic |-> panic, err |-> err, res |-> res, stmts |-> stmts, db |-> d, out |-> out]

\* The error the engine (or the driver) reports.
EngineErr == <<"engine error">>

NilDsMsg == "datastore, database connection, or adapter was nil"
NilDbMsg == "datastore or database connection was nil"

\* An Exec that reports a failed execution as no rows affected (variant of
\* ExecResult, to be told apart by C25).
ExecResultLenient(a, d, st, run) ==
    IF run.stage = "prepare"
    THEN Outcome(FALSE, Wrap("failed to prepare exec statement", EngineErr),
                 NilResult, <<st>>, d, <<>>)
    ELSE IF run.stage = "exec"
    THEN Outcome(FALSE, NoErr, DriverResult(a, d, 0), <<st>>, d, <<>>)
    ELSE Outcome(FALSE, NoErr, DriverResult(a, run.db, run.affected), <<st>>, run.db, <<>>)

\* Exec once the statement has run.
ExecResult(a, d, st, run) ==
    IF run.stage = "prepare"
    THEN Outcome(FALSE, Wrap("failed to prepare exec statement", EngineErr),
                 NilResult, <<st>>, d, <<>>)
    ELSE IF run.stage = "exec"
    THEN Outcome(FALSE, Wrap("failed to execute exec statement", EngineErr),
                 NilResult, <<st>>, d, <<>>)
    ELSE Outcome(FALSE, NoErr, DriverResult(a, run.db, run.affected), <<st>>, run.db, <<>>)

Exec(dsk, a, d, st, fail) ==
    IF dsk \in {"nilDS", "nilDB"}
    THEN Outcome(FALSE, NewErr(NilDbMsg), NilResult, <<>>, d, <<>>)
    ELSE ExecResult(a, d, st, EngineRun(a, d, st, fail))

\* QueryRow once the statement has run.  It returns the *sql.Row without
\* looking at it: a failure of the query itself stays in the row until Scan
\* (rowErr).
QueryRowResult(st, run) ==
    IF run.stage = "prepare"
    THEN [err |-> Wrap("failed to prepare query", EngineErr), stmts |-> <<st>>,
          rowErr |-> NoErr, row |-> NoRow]
    ELSE [err |-> NoErr, stmts |-> <<st>>,
          rowErr |-> IF run.stage = "exec" THEN EngineErr ELSE NoErr,
          row |-> run.row]

QueryRow(dsk, a, d, st, fail) ==
    IF dsk \in {"nilDS", "nilDB"}
    THEN [err |-> NewErr(NilDbMsg), stmts |-> <<>>, rowErr |-> NoErr, row |-> NoRow]
    ELSE QueryRowResult(st, EngineRun(a, d, st, fail))

\* Every column, the key among them (variant of InsertColumns, to be told
\* apart by C21).
InsertColumnsAll(allColumns, pkCol) == [i \in 1..Len(allColumns) |-> i]

\* The columns Insert lists: all but the primary-key column.
InsertColumns(allColumns, pkCol) ==
    SelectSeq([i \in 1..Len(allColumns) |-> i], LAMBDA i : allColumns[i] # pkCol)

\* The primary-key column Insert skips: none when the model has no key.
InsertPkCol(m) ==
    LET pk == GetPrimaryKeyColumn(m)
    IN IF pk.err # NoErr THEN <<>> ELSE pk.col

\* INSERT INTO <table> (<columns>) VALUES (<placeholders>)
InsertQuery(a, tableName, info, pkCol) ==
    LET kept == InsertColumns(info.columns, pkCol)
    IN Stmt("INSERT", tableName,
            [k \in 1..Len(kept) |-> info.columns[kept[k]]],
            [k \in 1..Len(kept) |-> AdapterGetPlaceholder(a, k)],
            <<>>, <<>>, <<>>,
            [k \in 1..Len(kept) |-> info.values[kept[k]]])

\* The Postgres branch once the statement has run: row.Scan(&lastInsertID).
InsertScan(d, returning, run) ==
    IF run.stage # "none" \/ run.row.vals[1].t # "int"
    THEN Outcome(FALSE, Wrap("failed to execute insert query and scan ID", EngineErr),
                 NilResult, <<returning>>, IF run.stage # "none" THEN d ELSE run.db, <<>>)
    ELSE Outcome(FALSE, NoErr, PostgresResult(run.row.vals[1].i, 1),
                 <<returning>>, run.db, <<>>)

\* query with " RETURNING <pkCol>" appended.
Returning(query, pkCol) == [query EXCEPT !.returning = pkCol]

\* An Insert that takes the Exec path whatever the adapter (variant of
\* InsertRun, to be told apart by C22).
InsertRunPlain(dsk, a, d, pkCol, query, fail) == Exec(dsk, a, d, query, fail)

InsertRun(dsk, a, d, pkCol, query, fail) ==
    IF a = "postgres" /\ pkCol # <<>>
    THEN InsertScan(d, Returning(query, pkCol),
                    EngineRun(a, d, Returning(query, pkCol), fail))
    ELSE Exec(dsk, a, d, query, fail)

Insert(dsk, a, d, m, fail) ==
    IF dsk # "ok"
    THEN Outcome(FALSE, NewErr(NilDsMsg), NilResult, <<>>, d, <<>>)
    ELSE IF GetTableName(m).panic \/ GetFieldInfo(m).panic
    THEN Outcome(TRUE, NoErr, NilResult, <<>>, d, <<>>)
    ELSE InsertRun(dsk, a, d, InsertPkCol(m),
                   InsertQuery(a, GetTableName(m).name, GetFieldInfo(m), InsertPkCol(m)),
                   fail)

\* CreateTable once the statement has run.
CreateTableResult(d, query, run) ==
    IF run.stage # "none"
    THEN Outcome(FALSE, Wrap("failed to execute create table query", EngineErr),
                 NilResult, <<CreateStmt(query)>>, d, <<>>)
    ELSE Outcome(FALSE, NoErr, NilResult, <<CreateStmt(query)>>, run.db, <<>>)

\* CreateTable once the adapter has answered.
CreateTableExec(a, d, sql, fail) ==
    IF sql.panic THEN Outcome(TRUE, NoErr, NilResult, <<>>, d, <<>>)
    ELSE IF sql.err # NoErr
    THEN Outcome(FALSE, Wrap("failed to generate create table SQL", sql.err),
                 NilResult, <<>>, d, <<>>)
    ELSE CreateTableResult(d, sql.query, EngineCreate(a, d, sql.query, fail))

CreateTable(dsk, a, d, m, fail) ==
    IF dsk # "ok"
    THEN Outcome(FALSE, NewErr(NilDsMsg), NilResult, <<>>, d, <<>>)
    ELSE CreateTableExec(a, d, AdapterCreateTableSQL(a, m), fail)

(***************************************************************************)
(* Repository (pkg/model): Save, FindByID, Update, Delete.                 *)
(***************************************************************************)
NilRepoDsMsg == "datastore is nil"
NotPtrMsg == "model must be a non-nil pointer to a struct"
NeedPkMsg == "model must have a primary key field with 'pk' tag"

Failed(err, stmts, d, out) == Outcome(FALSE, err, NilResult, stmts, d, out)
Panicked(d, out) == Outcome(TRUE, NoErr, NilResult, <<>>, d, out)

\* The index of the first field that cannot take its value from the row:
\* database/sql converts a cell into the field's type and refuses NULL for
\* the Go types of a model; Len(vals) + 1 when every field can.
FirstBadCell(t, vals) ==
    LET Fits(i) == \/ vals[i].t = "int" /\ t.fields[i].type \in IntegerTypes
                   \/ vals[i].t = "str" /\ t.fields[i].type = "string"
                   \/ vals[i].t = "bool" /\ t.fields[i].type = "bool"
    IN IF \A i \in 1..Len(vals) : Fits(i) THEN Len(vals) + 1
       ELSE CHOOSE i \in 1..Len(vals) : ~Fits(i) /\ \A j \in 1..(i - 1) : Fits(j)

\* A Scan that clears the destination when there is no row (variant of
\* Scan, to be told apart by C3).
ScanClearing(m, q) ==
    IF q.rowErr # NoErr THEN [err |-> q.rowErr, out |-> m.vals]
    ELSE IF ~q.row.found THEN [err |-> ErrNoRows, out |-> ZeroVals(m.type)]
    ELSE [err |-> NoErr, out |-> q.row.vals]

\* row.Scan(dest...), dest[i] the address of the i-th field: the row's cells
\* are stored into the fields in order, up to the first one that fails.
Scan(m, q) ==
    IF q.rowErr # NoErr THEN [err |-> q.rowErr, out |-> m.vals]
    ELSE IF ~q.row.found THEN [err |-> ErrNoRows, out |-> m.vals]
    ELSE IF Len(q.row.vals) # NumField(m.type) THEN [err |-> EngineErr, out |-> m.vals]
    ELSE LET bad == FirstBadCell(m.type, q.row.vals)
         IN [err |-> IF bad <= Len(q.row.vals) THEN EngineErr ELSE NoErr,
             out |-> [i \in 1..NumField(m.type) |->
                         IF i < bad THEN q.row.vals[i] ELSE m.vals[i]]]

\* A check of the pointer kind alone (variant of IsStructPointer, to be told
\* apart by C5).
IsPointer(m) == m.form \in {"ptr", "nilptr", "ptrnonstruct"}

\* v.Kind() == reflect.Ptr && !v.IsNil() && v.Elem().Kind() == reflect.Struct
IsStructPointer(m) == m.form = "ptr"

\* FindByID once the row is scanned into the fields.
FindScanned(d, m, columns, q, sc) ==
    IF \E i \in 1..Len(columns) : ToLower(m.type.fields[i].name) # columns[i]
    THEN Failed(NewErr("internal error: column name mismatch"), q.stmts, d, m.vals)
    ELSE IF sc.err = ErrNoRows THEN Failed(ErrNoRows, q.stmts, d, sc.out)
    ELSE IF sc.err # NoErr
    THEN Failed(Wrap("failed to scan row into model", sc.err), q.stmts, d, sc.out)
    ELSE Outcome(FALSE, NoErr, NilResult, q.stmts, d, sc.out)

\* FindByID once QueryRow has returned.
FindQueried(d, m, columns, q) ==
    IF q.err # NoErr THEN Failed(Wrap("failed to query row", q.err), q.stmts, d, m.vals)
    ELSE FindScanned(d, m, columns, q, Scan(m, q))

\* SELECT <columns> FROM <table> WHERE <pk> = <placeholder 1>
SelectStmt(a, tableName, columns, pkCol, id) ==
    Stmt("SELECT", tableName, columns, <<>>, pkCol, AdapterGetPlaceholder(a, 1), <<>>, <<id>>)

FindByID(dsk, a, d, m, id, fail) ==
    IF dsk = "nilDS" THEN Failed(NewErr(NilRepoDsMsg), <<>>, d, m.vals)
    ELSE IF ~IsStructPointer(m) THEN Failed(NewErr(NotPtrMsg), <<>>, d, m.vals)
    ELSE LET columns == GetFieldInfo(m).columns
             pk == GetPrimaryKeyColumn(m)
         IN IF Len(columns) = 0
            THEN Failed(NewErr("model has no fields to query"), <<>>, d, m.vals)
            ELSE IF pk.err # NoErr THEN Failed(Wrap(NeedPkMsg, pk.err), <<>>, d, m.vals)
            ELSE IF dsk = "nilAdapter" THEN Panicked(d, m.vals)
            ELSE FindQueried(d, m, columns,
                             QueryRow(dsk, a, d,
                                      SelectStmt(a, GetTableName(m).name, columns, pk.col, id),
                                      fail))

\* An Update that passes the key before the values of the SET clauses
\* (variant of Update, to be told apart by C20).
UpdateKeyFirst(dsk, a, d, m, fail) ==
    IF dsk = "nilDS" THEN Failed(NewErr(NilRepoDsMsg), <<>>, d, <<>>)
    ELSE IF GetTableName(m).panic \/ GetFieldInfo(m).panic THEN Panicked(d, <<>>)
    ELSE LET info == GetFieldInfo(m)
             pk == GetPrimaryKeyColumn(m)
             pkValue == GetPrimaryKeyValue(m)
             kept == InsertColumns(info.columns, pk.col)
             setCols == [k \in 1..Len(kept) |-> info.columns[kept[k]]]
             setPhs == [k \in 1..Len(kept) |-> AdapterGetPlaceholder(a, k)]
             updateValues == <<pkValue.value>>
                                 \o [k \in 1..Len(kept) |-> info.values[kept[k]]]
         IN IF pk.err # NoErr THEN Failed(Wrap(NeedPkMsg, pk.err), <<>>, d, <<>>)
            ELSE IF pkValue.err # NoErr
            THEN Failed(Wrap("failed to get primary key value", pkValue.err), <<>>, d, <<>>)
            ELSE IF Len(kept) > 0 /\ dsk = "nilAdapter" THEN Panicked(d, <<>>)
            ELSE IF Len(kept) = 0 THEN Failed(NewErr("no fields to update"), <<>>, d, <<>>)
            ELSE Exec(dsk, a, d,
                      Stmt("UPDATE", GetTableName(m).name, setCols, setPhs, pk.col,
                           AdapterGetPlaceholder(a, Len(kept) + 1), <<>>, updateValues),
                      fail)

Update(dsk, a, d, m, fail) ==
    IF dsk = "nilDS" THEN Failed(NewErr(NilRepoDsMsg), <<>>, d, <<>>)
    ELSE IF GetTableName(m).panic \/ GetFieldInfo(m).panic THEN Panicked(d, <<>>)
    ELSE LET info == GetFieldInfo(m)
             pk == GetPrimaryKeyColumn(m)
             pkValue == GetPrimaryKeyValue(m)
             kept == InsertColumns(info.columns, pk.col)
             setCols == [k \in 1..Len(kept) |-> info.columns[kept[k]]]
             setPhs == [k \in 1..Len(kept) |-> AdapterGetPlaceholder(a, k)]
             updateValues == [k \in 1..Len(kept) |-> info.values[kept[k]]]
                                 \o <<pkValue.value>>
         IN IF pk.err # NoErr THEN Failed(Wrap(NeedPkMsg, pk.err), <<>>, d, <<>>)
            ELSE IF pkValue.err # NoErr
            THEN Failed(Wrap("failed to get primary key value", pkValue.err), <<>>, d, <<>>)
            ELSE IF Len(kept) > 0 /\ dsk = "nilAdapter" THEN Panicked(d, <<>>)
            ELSE IF Len(kept) = 0 THEN Failed(NewErr("no fields to update"), <<>>, d, <<>>)
            ELSE Exec(dsk, a, d,
                      Stmt("UPDATE", GetTableName(m).name, setCols, setPhs, pk.col,
                           AdapterGetPlaceholder(a, Len(kept) + 1), <<>>, updateValues),
                      fail)

\* A DELETE bound to the zero key whatever the model's key (variant of
\* DeleteStmt, to be told apart by C4).
DeleteStmtZeroKey(a, tableName, pkCol, pkValue) ==
    Stmt("DELETE", tableName, <<>>, <<>>, pkCol, AdapterGetPlaceholder(a, 1), <<>>,
         <<IntV(0)>>)

\* DELETE FROM <table> WHERE <pk> = <placeholder 1>, with the key as its argument.
DeleteStmt(a, tableName, pkCol, pkValue) ==
    Stmt("DELETE", tableName, <<>>, <<>>, pkCol, AdapterGetPlaceholder(a, 1), <<>>, <<pkValue>>)

Delete(dsk, a, d, m, fail) ==
    IF dsk = "nilDS" THEN Failed(NewErr(NilRepoDsMsg), <<>>, d, <<>>)
    ELSE IF GetTableName(m).panic \/ GetPrimaryKeyColumn(m).panic THEN Panicked(d, <<>>)
    ELSE LET pk == GetPrimaryKeyColumn(m)
             pkValue == GetPrimaryKeyValue(m)
         IN IF pk.err # NoErr THEN Failed(Wrap(NeedPkMsg, pk.err), <<>>, d, <<>>)
            ELSE IF pkValue.err # NoErr
            THEN Failed(Wrap("failed to get primary key value", pkValue.err), <<>>, d, <<>>)
            ELSE IF dsk = "nilAdapter" THEN Panicked(d, <<>>)
            ELSE Exec(dsk, a, d, DeleteStmt(a, GetTableName(m).name, pk.col, pkValue.value),
                      fail)

\* A Save that never updates (variant of SaveInserts, to be told apart by C2).
SaveInsertsAlways(pkValue) == TRUE

\* Save inserts when the model has no primary key or when the key is an
\* int or int64 equal to 0, and updates otherwise.
\* A Save that inserts for a zero key alone (variant of SaveInserts, to be
\* told apart by C26).
SaveInsertsZeroKey(pkValue) ==
    pkValue.err = NoErr /\ pkValue.kind \in {"int", "int64"} /\ pkValue.value.i = 0

SaveInserts(pkValue) ==
    \/ pkValue.err # NoErr
    \/ pkValue.kind \in {"int", "int64"} /\ pkValue.value.i = 0

\* A Save that looks for the row first and inserts when there is none
\* (variant of Save, to be told apart by C30).
SaveUpserting(dsk, a, d, m, fail) ==
    IF dsk = "nilDS" THEN Failed(NewErr(NilRepoDsMsg), <<>>, d, <<>>)
    ELSE IF GetPrimaryKeyValue(m).panic THEN Panicked(d, <<>>)
    ELSE IF \/ SaveInserts(GetPrimaryKeyValue(m))
            \/ \A r \in d.rows : r.vals[FirstPk(m.type)] # GetPrimaryKeyValue(m).value
    THEN Insert(dsk, a, d, m, fail)
    ELSE Update(dsk, a, d, m, fail)

Save(dsk, a, d, m, fail) ==
    IF dsk = "nilDS" THEN Failed(NewErr(NilRepoDsMsg), <<>>, d, <<>>)
    ELSE IF GetPrimaryKeyValue(m).panic THEN Panicked(d, <<>>)
    ELSE IF SaveInserts(GetPrimaryKeyValue(m)) THEN Insert(dsk, a, d, m, fail)
    ELSE Update(dsk, a, d, m, fail)

(***************************************************************************)
(* The model types the repository is run on.                               *)
(***************************************************************************)
\* An int key with two more fields (the shape of RepoUser).
Item == ModelType(<<"I","t","e","m">>, <<Field(<<"I","D">>, "int", "true", <<"n","o","t"," ","n","u","l","l">>),
                             Field(<<"N","a","m","e">>, "string", "", <<>>),
                             Field(<<"Q","t","y">>, "int", "", <<>>)>>)
\* Keys of the other types CreateTableSQL maps.
Item64 == ModelType(<<"I","t","e","m","6","4">>, <<Field(<<"I","D">>, "int64", "true", <<>>),
                                 Field(<<"N","a","m","e">>, "string", "", <<>>)>>)
Item32 == ModelType(<<"I","t","e","m","3","2">>, <<Field(<<"I","D">>, "int32", "true", <<>>),
                                 Field(<<"N","a","m","e">>, "string", "", <<>>)>>)
Label == ModelType(<<"L","a","b","e","l">>, <<Field(<<"C","o","d","e">>, "string", "true", <<>>),
                               Field(<<"N","a","m","e">>, "string", "", <<>>)>>)
\* The key is not the first field.
Entry == ModelType(<<"E","n","t","r","y">>, <<Field(<<"N","a","m","e">>, "string", "", <<>>),
                               Field(<<"I","D">>, "int", "true", <<>>)>>)
\* Nothing but the key.
Solo == ModelType(<<"S","o","l","o">>, <<Field(<<"I","D">>, "int", "true", <<>>)>>)
\* No field is tagged pk:"true".
Memo == ModelType(<<"M","e","m","o">>, <<Field(<<"T","e","x","t">>, "string", "", <<>>)>>)

CrudTypes == {Item, Item64, Item32, Label, Entry, Solo, Memo}

\* The values callers give a field.
FieldDomain(f) ==
    IF f.pk = "true"
    THEN (IF f.type = "string" THEN {StrV(""), StrV("k")}
          ELSE {IntV(k) : k \in 0..MaxKey})
    ELSE CASE f.type = "string" -> {StrV("a"), StrV("b")}
           [] f.type = "bool" -> {BoolV(TRUE)}
           [] OTHER -> {IntV(7)}

\* The field values of the models callers pass, per type.
ValsOf == [t \in CrudTypes |->
              {v \in [1..NumField(t) -> UNION {FieldDomain(t.fields[i]) : i \in 1..NumField(t)}] :
                  \A i \in 1..NumField(t) : v[i] \in FieldDomain(t.fields[i])}]

\* A destination model that already holds values.
UsedValue(goType) ==
    CASE goType \in IntegerTypes -> IntV(9)
      [] goType = "string" -> StrV("z")
      [] goType = "bool" -> BoolV(TRUE)
      [] OTHER -> IntV(9)

\* Models that differ in their key only, the other fields zero.
KeyedVals == [t \in CrudTypes |->
                {[i \in 1..NumField(t) |->
                     IF i = FirstPk(t) THEN k ELSE ZeroValue(t.fields[i].type)] :
                  k \in IF FirstPk(t) = 0 THEN {NullV}
                        ELSE FieldDomain(t.fields[FirstPk(t)])}]

UsedVals(t) == [i \in 1..NumField(t) |-> UsedValue(t.fields[i].type)]

\* The ids FindByID is asked for (id int).
Ids == {IntV(k) : k \in 0..MaxKey}

\* The destinations FindByID is given: a fresh model and a used one.
DestVals(t) == {ZeroVals(t), UsedVals(t)}

(***************************************************************************)
(* The state machine: one connection (its dialect and the Datastore the    *)
(* callers hold), one model type, the database, the last call with what   *)
(* it returned, and the Repository an ORMDataStore holds ("orm": an        *)
(* ORMRepository over the Datastore).                                      *)
(***************************************************************************)
Record(op, form, vals, id, fail, o, text) ==
    [op |-> op, form |-> form, vals |-> vals, id |-> id, fail |-> fail,
     panic |-> o.panic, err |-> o.err, res |-> o.res, stmts |-> o.stmts, out |-> o.out,
     text |-> text]

NoCall == Record("none", "nil", <<>>, IntV(0), "none",
                 Outcome(FALSE, NoErr, NilResult, <<>>, EmptyDB, <<>>), <<>>)

Init ==
    /\ adapter \in Adapters
    /\ ds \in DsKinds
    /\ mt \in CrudTypes
    /\ db = EmptyDB
    /\ last = NoCall
    /\ repo = "orm"

\* The bounds of the model: rows in the table and generated keys.
WithinBounds(o) ==
    /\ Cardinality(o.db.rows) <= MaxRows
    /\ \A r \in o.db.rows : r.rowid <= MaxSeq
    /\ o.db.seq <= MaxSeq + 1

Step(op, form, vals, id, fail, o) ==
    /\ WithinBounds(o)
    /\ db' = o.db
    /\ last' = Record(op, form, vals, id, fail, o, <<>>)
    /\ UNCHANGED <<adapter, ds, mt, repo>>

DoCreateTable(fail) ==
    \E form \in Forms :
        Step("CreateTable", form, <<>>, IntV(0), fail,
             CreateTable(ds, adapter, db, Model(form, mt, <<>>), fail))

\* A call that stores the key the database generated in the model's key
\* field (variant of ModelAfter, to be told apart by C27).
ModelAfterKeyed(m, o) ==
    [o EXCEPT !.out = IF ~o.panic /\ o.err = NoErr /\ o.res.idOk /\ FirstPk(m.type) # 0
                      THEN [m.vals EXCEPT ![FirstPk(m.type)] = IntV(o.res.lastInsertId)]
                      ELSE m.vals]

\* The outcome of Save, Insert, Update or Delete with the fields of the
\* model as the caller finds them afterwards: these functions read the
\* model through reflection (Field(i).Interface()) and set no field.
ModelAfter(m, o) == [o EXCEPT !.out = m.vals]

DoSave(fail) ==
    \E vals \in ValsOf[mt] :
        Step("Save", "ptr", vals, IntV(0), fail,
             ModelAfter(Model("ptr", mt, vals),
                        Save(ds, adapter, db, Model("ptr", mt, vals), fail)))

DoInsert(fail) ==
    \E vals \in ValsOf[mt] :
        Step("Insert", "ptr", vals, IntV(0), fail,
             ModelAfter(Model("ptr", mt, vals),
                        Insert(ds, adapter, db, Model("ptr", mt, vals), fail)))

DoUpdate(fail) ==
    \E vals \in ValsOf[mt] :
        Step("Update", "ptr", vals, IntV(0), fail,
             ModelAfter(Model("ptr", mt, vals),
                        Update(ds, adapter, db, Model("ptr", mt, vals), fail)))

\* Delete reads the key of its model and nothing else: the models differ in it.
DoDelete(fail) ==
    \E vals \in KeyedVals[mt] :
        Step("Delete", "ptr", vals, IntV(0), fail,
             ModelAfter(Model("ptr", mt, vals),
                        Delete(ds, adapter, db, Model("ptr", mt, vals), fail)))

\* FindByID with a pointer to a model, fresh or used.
DoFindByID(fail) ==
    \E id \in Ids, vals \in DestVals(mt) :
        Step("FindByID", "ptr", vals, id, fail,
             FindByID(ds, adapter, db, Model("ptr", mt, vals), id, fail))

\* FindByID with anything else.
DoFindByIDBadModel(fail) ==
    \E form \in Forms \ {"ptr"} :
        LET vals == IF form = "struct" THEN UsedVals(mt) ELSE <<>>
        IN Step("FindByID", form, vals, IntV(1), fail,
                FindByID(ds, adapter, db, Model(form, mt, vals), IntV(1), fail))

\* The repository on a working engine.
Next ==
    \/ DoCreateTable("none")
    \/ DoSave("none")
    \/ DoInsert("none")
    \/ DoUpdate("none")
    \/ DoDelete("none")
    \/ DoFindByID("none")
    \/ DoFindByIDBadModel("none")

Spec == Init /\ [][Next]_vars

(***************************************************************************)
(* SQL generation on its own: the adapters' CreateTableSQL and             *)
(* GetPlaceholder applied to the model types and indexes below.            *)
(***************************************************************************)
\* The five-field user model of the tests and examples, its constraint tags
\* as given: an integer key, two texts, an integer and a boolean.
UserShape(name, idTag, usernameTag, emailTag) ==
    ModelType(name, <<Field(<<"I","D">>, "int", "true", idTag),
                      Field(<<"U","s","e","r","n","a","m","e">>, "string", "", usernameTag),
                      Field(<<"E","m","a","i","l">>, "string", "", emailTag),
                      Field(<<"A","g","e">>, "int", "", <<>>),
                      Field(<<"I","s","A","c","t","i","v","e">>, "bool", "", <<>>)>>)

\* type RepoUser of the test package.
RepoUser == UserShape(<<"R","e","p","o","U","s","e","r">>, <<"n","o","t"," ","n","u","l","l">>, <<"u","n","i","q","u","e"," ","n","o","t"," ","n","u","l","l">>, <<"n","o","t"," ","n","u","l","l"," ","u","n","i","q","u","e">>)

\* The same fields and tags under the name the adapter test expects (testuser).
TaggedTestUser == UserShape(<<"T","e","s","t","U","s","e","r">>, <<"n","o","t"," ","n","u","l","l">>, <<"u","n","i","q","u","e"," ","n","o","t"," ","n","u","l","l">>, <<"n","o","t"," ","n","u","l","l"," ","u","n","i","q","u","e">>)

\* The user model with other constraint tags on the key and on the texts.
UserShapes == {UserShape(<<"M","e","m","b","e","r">>, idTag, <<"u","n","i","q","u","e"," ","n","o","t"," ","n","u","l","l">>, emailTag) :
                  idTag \in {<<>>, <<"n","o","t"," ","n","u","l","l">>}, emailTag \in {<<"u","n","i","q","u","e">>, <<"n","o","t"," ","n","u","l","l"," ","u","n","i","q","u","e">>}}

\* type TestUser as the test package declares it: db tags that name the
\* column and list options, and no pk tag.
TestUser ==
    ModelType(<<"T","e","s","t","U","s","e","r">>, <<Field(<<"I","D">>, "int", "", <<"i","d",",","p","r","i","m","a","r","y","k","e","y",",","a","u","t","o","i","n","c","r","e","m","e","n","t">>),
                             Field(<<"U","s","e","r","n","a","m","e">>, "string", "", <<"u","s","e","r","n","a","m","e",",","u","n","i","q","u","e",",","n","o","t","n","u","l","l">>),
                             Field(<<"E","m","a","i","l">>, "string", "", <<"e","m","a","i","l",",","u","n","i","q","u","e">>),
                             Field(<<"A","g","e">>, "int", "", <<"a","g","e">>),
                             Field(<<"I","s","A","c","t","i","v","e">>, "bool", "", <<"i","s","_","a","c","t","i","v","e",",","d","e","f","a","u","l","t",":","t","r","u","e">>)>>)

\* A text key, floating fields and a field of another type.
Reading == ModelType(<<"R","e","a","d","i","n","g">>, <<Field(<<"C","o","d","e">>, "string", "true", <<>>),
                                   Field(<<"V","a","l","u","e">>, "float64", "", <<>>),
                                   Field(<<"R","a","t","i","o">>, "float32", "", <<"n","o","t"," ","n","u","l","l">>),
                                   Field(<<"A","t">>, "time.Time", "", <<>>),
                                   Field(<<"C","o","u","n","t">>, "uint8", "", <<>>)>>)

\* Integers of every width the type switch names, and an unsigned one.
Widths == ModelType(<<"W","i","d","t","h","s">>, <<Field(<<"T","i","n","y">>, "int8", "", <<>>),
                                 Field(<<"S","h","o","r","t">>, "int16", "", <<>>),
                                 Field(<<"W","i","d","e">>, "int32", "", <<>>),
                                 Field(<<"L","o","n","g">>, "int64", "", <<>>),
                                 Field(<<"C","o","u","n","t">>, "uint", "", <<>>)>>)

SqlTypes == {RepoUser, TaggedTestUser, TestUser, Reading, Widths} \cup UserShapes

InitSQL ==
    /\ adapter \in Adapters
    /\ ds = "ok"
    /\ mt \in SqlTypes
    /\ db = EmptyDB
    /\ last = NoCall
    /\ repo = "orm"

\* adapter.CreateTableSQL(model): the statement text, or the error, or a panic.
CallCreateTableSQL ==
    \E form \in Forms :
        LET sql == AdapterCreateTableSQL(adapter, Model(form, mt, <<>>))
        IN /\ last' = Record("CreateTableSQL", form, <<>>, IntV(0), "none",
                             Outcome(sql.panic, sql.err, NilResult, <<>>, db, <<>>), sql.query)
           /\ UNCHANGED <<adapter, ds, mt, db, repo>>

\* adapter.GetPlaceholder(index)
CallGetPlaceholder ==
    \E index \in 1..MaxIndex :
        /\ last' = Record("GetPlaceholder", "nil", <<>>, IntV(index), "none",
                          Outcome(FALSE, NoErr, NilResult, <<>>, db, <<>>),
                          AdapterGetPlaceholder(adapter, index))
        /\ UNCHANGED <<adapter, ds, mt, db, repo>>

NextSQL == CallCreateTableSQL \/ CallGetPlaceholder

SpecSQL == InitSQL /\ [][NextSQL]_vars

(***************************************************************************)
(* The repository over an engine that may fail: every call of Spec, with   *)
(* the statement it sends failing at Prepare or at execution, or not at    *)
(* all.                                                                    *)
(***************************************************************************)
Faults == {"none", "prepare", "exec"}

NextFaults ==
    \/ DoCreateTable("none")
    \/ \E fail \in Faults : DoSave(fail)
    \/ \E fail \in Faults : DoInsert(fail)
    \/ \E fail \in Faults : DoUpdate(fail)
    \/ \E fail \in Faults : DoDelete(fail)
    \/ \E fail \in Faults : DoFindByID(fail)

SpecFaults == Init /\ [][NextFaults]_vars

(***************************************************************************)
(* CreateTable applied to the model types of the adapter tests, on every   *)
(* kind of Datastore.                                                      *)
(***************************************************************************)
InitTables ==
    /\ adapter \in Adapters
    /\ ds \in DsKinds
    /\ mt \in SqlTypes
    /\ db = EmptyDB
    /\ last = NoCall
    /\ repo = "orm"

NextTables == DoCreateTable("none")

SpecTables == InitTables /\ [][NextTables]_vars

(***************************************************************************)
(* The metadata extractor on its own: GetTableName and                     *)
(* GetPrimaryKeyColumn applied to models of every form.                    *)
(***************************************************************************)
\* Two fields tagged pk:"true".
Pair == ModelType(<<"P","a","i","r">>, <<Field(<<"C","o","d","e">>, "string", "true", <<>>),
                             Field(<<"I","D">>, "int", "true", <<>>),
                             Field(<<"N","a","m","e">>, "string", "", <<>>)>>)
\* A pk tag with another value ahead of the key.
Loose == ModelType(<<"L","o","o","s","e">>, <<Field(<<"I","D">>, "int", "TRUE", <<>>),
                               Field(<<"K","e","y">>, "int", "true", <<>>)>>)

MetaTypes == CrudTypes \cup {Pair, Loose}

InitMeta ==
    /\ adapter \in Adapters
    /\ ds = "ok"
    /\ mt \in MetaTypes
    /\ db = EmptyDB
    /\ last = NoCall
    /\ repo = "orm"

\* GetTableName(model): the name, or a panic; it has no error result.
CallGetTableName ==
    \E form \in Forms :
        LET r == GetTableName(Model(form, mt, <<>>))
        IN /\ last' = Record("GetTableName", form, <<>>, IntV(0), "none",
                             Outcome(r.panic, NoErr, NilResult, <<>>, db, <<>>), r.name)
           /\ UNCHANGED <<adapter, ds, mt, db, repo>>

\* GetPrimaryKeyColumn(model): the column and the error, or a panic.
CallGetPrimaryKeyColumn ==
    \E form \in Forms :
        LET r == GetPrimaryKeyColumn(Model(form, mt, <<>>))
        IN /\ last' = Record("GetPrimaryKeyColumn", form, <<>>, IntV(0), "none",
                             Outcome(r.panic, r.err, NilResult, <<>>, db, <<>>), r.col)
           /\ UNCHANGED <<adapter, ds, mt, db, repo>>

NextMeta == CallGetTableName \/ CallGetPrimaryKeyColumn

SpecMeta == InitMeta /\ [][NextMeta]_vars

(***************************************************************************)
(* ORMDataStore (pkg/model): GetUserByID, SaveUser and DeleteUser over the *)
(* Repository it holds.                                                    *)
(***************************************************************************)
\* type User of pkg/model.  Its ID carries the tag liteforge:"pk", which is
\* neither a pk tag nor a db tag.
User == ModelType(<<"U","s","e","r">>, <<Field(<<"I","D">>, "int", "", <<>>),
                             Field(<<"N","a","m","e">>, "string", "", <<>>),
                             Field(<<"A","g","e">>, "int", "", <<>>)>>)

\* What the Repo field holds: "nil" the nil interface, "nilptr" a nil
\* *ORMRepository, "orm" an ORMRepository over the Datastore, "mock" another
\* implementation of Repository.
RepoKinds == {"nil", "nilptr", "orm", "mock"}

NilRepoMsg == "repository is nil"

\* What a method of another implementation answers: the error it returns
\* and, for FindByID, whether it fills the destination.
MockErrs == {NoErr, ErrNoRows, Wrap("row lookup failed", ErrNoRows),
             NewErr("database connection failed")}
MockAnswers == [err : MockErrs, fill : BOOLEAN]
NoAnswer == [err |-> NoErr, fill |-> FALSE]

\* The sql.Result of another implementation.
MockResult == [nil |-> FALSE, lastInsertId |-> 0, idOk |-> TRUE, rowsAffected |-> 1]

MockOutcome(ans, d, out) ==
    Outcome(FALSE, ans.err, IF ans.err = NoErr THEN MockResult ELSE NilResult, <<>>, d, out)

\* The fields another implementation's FindByID leaves in the destination.
MockFound(id) == <<id, StrV("a"), IntV(7)>>

\* ds.Repo.FindByID(user, id) through the interface; r.DS on a nil
\* *ORMRepository is a nil-pointer dereference.
RepoFindByID(rk, dsk, a, d, m, id, ans) ==
    CASE rk = "nilptr" -> Panicked(d, m.vals)
      [] rk = "orm" -> FindByID(dsk, a, d, m, id, "none")
      [] OTHER -> MockOutcome(ans, d, IF ans.fill THEN MockFound(id) ELSE m.vals)

\* ds.Repo.Save(user)
RepoSave(rk, dsk, a, d, m, ans) ==
    CASE rk = "nilptr" -> Panicked(d, <<>>)
      [] rk = "orm" -> Save(dsk, a, d, m, "none")
      [] OTHER -> MockOutcome(ans, d, <<>>)

\* ds.Repo.Delete(userToDelete)
RepoDelete(rk, dsk, a, d, m, ans) ==
    CASE rk = "nilptr" -> Panicked(d, <<>>)
      [] rk = "orm" -> Delete(dsk, a, d, m, "none")
      [] OTHER -> MockOutcome(ans, d, <<>>)

\* A call of a Repository method as the implementation receives it.
RepoCall(method, m, id) == [method |-> method, form |-> m.form, vals |-> m.vals, id |-> id]

\* The *User a method returns.
NilUser == [nil |-> TRUE, vals |-> <<>>]
UserOf(vals) == [nil |-> FALSE, vals |-> vals]

\* What a method of the ORMDataStore returned (or that it panicked), the
\* Repository calls it made, what the Repository returned, its statements
\* and the database afterwards.
StoreOutcome(o, err, user, calls) ==
    [panic |-> o.panic, err |-> IF o.panic THEN NoErr ELSE err,
     user |-> IF o.panic THEN NilUser ELSE user, calls |-> calls,
     repoErr |-> o.err, stmts |-> o.stmts, db |-> o.db]

\* An answer that wraps the message (variant of NilRepo, to be told apart
\* by C12).
NilRepoWrapped(d) ==
    [panic |-> FALSE, err |-> Wrap("failed to reach repository", NewErr(NilRepoMsg)),
     user |-> NilUser, calls |-> <<>>, repoErr |-> NoErr, stmts |-> <<>>, db |-> d]

NilRepo(d) ==
    [panic |-> FALSE, err |-> NewErr(NilRepoMsg), user |-> NilUser, calls |-> <<>>,
     repoErr |-> NoErr, stmts |-> <<>>, db |-> d]

\* A comparison with the sentinel itself (variant of IsNotFound, to be told
\* apart by C11).
IsNotFoundExact(err) == err = ErrNoRows

\* errors.Is(err, sql.ErrNoRows)
IsNotFound(err) == ErrorsIs(err, ErrNoRows)

\* GetUserByID once FindByID has returned o.
GetUserByIDResult(id, call, o) ==
    IF o.err # NoErr
    THEN (IF IsNotFound(o.err) THEN StoreOutcome(o, NoErr, NilUser, <<call>>)
          ELSE StoreOutcome(o, Wrap("failed to find user by ID " \o ToString(id.i), o.err),
                            NilUser, <<call>>))
    ELSE StoreOutcome(o, NoErr, UserOf(o.out), <<call>>)

\* user := &User{}
NewUser == Model("ptr", User, ZeroVals(User))

GetUserByID(rk, dsk, a, d, id, ans) ==
    IF rk = "nil" THEN NilRepo(d)
    ELSE GetUserByIDResult(id, RepoCall("FindByID", NewUser, id),
                           RepoFindByID(rk, dsk, a, d, NewUser, id, ans))

\* SaveUser once Save has returned o.
SaveUserResult(call, o) ==
    IF o.err # NoErr
    THEN StoreOutcome(o, Wrap("failed to save user", o.err), NilUser, <<call>>)
    ELSE StoreOutcome(o, NoErr, NilUser, <<call>>)

SaveUser(rk, dsk, a, d, user, ans) ==
    IF rk = "nil" THEN NilRepo(d)
    ELSE SaveUserResult(RepoCall("Save", user, IntV(0)), RepoSave(rk, dsk, a, d, user, ans))

\* DeleteUser once Delete has returned o.
DeleteUserResult(id, call, o) ==
    IF o.err # NoErr
    THEN StoreOutcome(o, Wrap("failed to delete user with ID " \o ToString(id.i), o.err),
                      NilUser, <<call>>)
    ELSE StoreOutcome(o, NoErr, NilUser, <<call>>)

\* A user with no ID set (variant of UserToDelete, to be told apart by C13).
UserToDeleteUnset(id) == Model("ptr", User, ZeroVals(User))

\* userToDelete := &User{ID: id}
UserToDelete(id) == Model("ptr", User, <<id, StrV(""), IntV(0)>>)

DeleteUser(rk, dsk, a, d, id, ans) ==
    IF rk = "nil" THEN NilRepo(d)
    ELSE DeleteUserResult(id, RepoCall("Delete", UserToDelete(id), IntV(0)),
                          RepoDelete(rk, dsk, a, d, UserToDelete(id), ans))

\* The users callers save.
UserVals == {<<IntV(k), StrV(n), IntV(7)>> : k \in 0..MaxKey, n \in {"a", "b"}}

\* The answers of the Repository's methods: chosen for another
\* implementation, computed for the others.
Answers == IF repo = "mock" THEN MockAnswers ELSE {NoAnswer}

InitStore ==
    /\ adapter \in Adapters
    /\ ds \in DsKinds
    /\ mt = User
    /\ db = EmptyDB
    /\ last = NoCall
    /\ repo \in RepoKinds

\* A call of the ORMDataStore: the Record of the call, with the user it
\* returned, the Repository calls it made, what the Repository returned and
\* the answer the Repository was to give.
StoreStep(op, form, vals, id, ans, so) ==
    /\ WithinBounds(so)
    /\ db' = so.db
    /\ last' = Record(op, form, vals, id, "none",
                      Outcome(so.panic, so.err, NilResult, so.stmts, so.db, so.user.vals),
                      <<>>)
                  @@ [user |-> so.user, calls |-> so.calls, repoErr |-> so.repoErr,
                      answer |-> ans]
    /\ UNCHANGED <<adapter, ds, mt, repo>>

DoGetUserByID ==
    \E id \in Ids, ans \in Answers :
        StoreStep("GetUserByID", "nil", <<>>, id, ans,
                  GetUserByID(repo, ds, adapter, db, id, ans))

\* SaveUser with a user, or with a nil *User.
DoSaveUser ==
    \E user \in {Model("ptr", User, vals) : vals \in UserVals}
                    \cup {Model("nilptr", User, <<>>)},
       ans \in Answers :
        StoreStep("SaveUser", user.form, user.vals, IntV(0), ans,
                  SaveUser(repo, ds, adapter, db, user, ans))

DoDeleteUser ==
    \E id \in Ids, ans \in Answers :
        StoreStep("DeleteUser", "nil", <<>>, id, ans,
                  DeleteUser(repo, ds, adapter, db, id, ans))

\* The ORMDataStore over its Repository; the table is created by CreateTable.
NextStore ==
    \/ DoCreateTable("none")
    \/ DoGetUserByID
    \/ DoSaveUser
    \/ DoDeleteUser

SpecStore == InitStore /\ [][NextStore]_vars

(***************************************************************************)
(* Connections: OpenDB and the adapters' Connect.  A configuration is its  *)
(* driver name and its write-ahead-log toggle; env is what the machine     *)
(* answers the steps of Connect: whether the directory of the data source  *)
(* exists, and whether os.MkdirAll, sql.Open, the WAL pragma and db.Ping   *)
(* succeed.  A Connect result is its error (none: the *sql.DB is returned) *)
(* and the steps it took.                                                  *)
(***************************************************************************)
DriverNames == {"sqlite3", "postgres", "mysql", ""}

Configs == [DriverName : DriverNames, UseWriteAheadLogs : BOOLEAN]

Envs == [dirExists : BOOLEAN, mkdir : BOOLEAN, open : BOOLEAN, wal : BOOLEAN, ping : BOOLEAN]

Connected(err, steps) == [err |-> err, steps |-> steps]

\* The steps of Connect from sql.Open on: the open, the pragma when asked
\* for, the ping.
OpenAndPing(env, pragma, done) ==
    IF ~env.open
    THEN Connected(Wrap("failed to open database", EngineErr), done \o <<"open">>)
    ELSE IF pragma /\ ~env.wal
    THEN Connected(Wrap("Failed to switch to WAL mode", EngineErr), done \o <<"open", "wal">>)
    ELSE IF ~env.ping
    THEN Connected(Wrap("failed to ping database", EngineErr),
                   done \o <<"open">> \o (IF pragma THEN <<"wal">> ELSE <<>>) \o <<"ping">>)
    ELSE Connected(NoErr,
                   done \o <<"open">> \o (IF pragma THEN <<"wal">> ELSE <<>>) \o <<"ping">>)

\* A Connect that returns the handle without the ping (variant of
\* SQLiteConnect, to be told apart by C17).
SQLiteConnectUnchecked(cfg, env) ==
    OpenAndPing([env EXCEPT !.ping = TRUE], cfg.UseWriteAheadLogs, <<>>)

SQLiteConnect(cfg, env) ==
    IF ~env.dirExists /\ ~env.mkdir
    THEN Connected(Wrap("failed to create directory", EngineErr), <<"mkdir">>)
    ELSE OpenAndPing(env, cfg.UseWriteAheadLogs,
                     IF env.dirExists THEN <<>> ELSE <<"mkdir">>)

PostgresConnect(cfg, env) == OpenAndPing(env, FALSE, <<>>)

\* OpenDB once the adapter is chosen: a nil *Datastore and the error of
\* Connect, or the Datastore.
Opened(a, c) ==
    [nil |-> c.err # NoErr, adapter |-> IF c.err # NoErr THEN "" ELSE a, err |-> c.err,
     steps |-> c.steps]

OpenDB(cfg, env) ==
    CASE cfg.DriverName = "sqlite3" -> Opened("sqlite", SQLiteConnect(cfg, env))
      [] cfg.DriverName = "postgres" -> Opened("postgres", PostgresConnect(cfg, env))
      [] OTHER -> [nil |-> TRUE, adapter |-> "",
                   err |-> NewErr("unsupported database driver: " \o cfg.DriverName),
                   steps |-> <<>>]

\* No Datastore yet.
InitOpen ==
    /\ adapter \in Adapters
    /\ ds = "nilDS"
    /\ mt = User
    /\ db = EmptyDB
    /\ last = NoCall
    /\ repo = "orm"

\* OpenDB(cfg): the Datastore the caller holds afterwards is the one
\* returned, over a fresh connection.
DoOpenDB ==
    \E cfg \in Configs, env \in Envs :
        LET r == OpenDB(cfg, env)
        IN /\ ds' = IF r.nil THEN "nilDS" ELSE "ok"
           /\ adapter' = IF r.nil THEN adapter ELSE r.adapter
           /\ db' = EmptyDB
           /\ last' = Record("OpenDB", "nil", <<>>, IntV(0), "none",
                             Outcome(FALSE, r.err, NilResult, <<>>, EmptyDB, <<>>), <<>>)
                         @@ [cfg |-> cfg, env |-> env, nil |-> r.nil, adapter |-> r.adapter,
                             steps |-> r.steps]
           /\ UNCHANGED <<mt, repo>>

NextOpen == DoOpenDB

SpecOpen == InitOpen /\ [][NextOpen]_vars

(***************************************************************************)
(* Two callers sharing one Datastore: one calls Delete and the other Save  *)
(* or Update, each from its own goroutine, with no lock but the engine's:  *)
(* a call works on its model alone until it hands its one statement to the *)
(* engine, which runs the statements one at a time.  The table is set up   *)
(* by CreateTable and Insert before the two calls start.                   *)
(***************************************************************************)
InitRace ==
    /\ adapter \in Adapters
    /\ ds = "ok"
    /\ mt \in CrudTypes
    /\ db = EmptyDB
    /\ last = NoCall
    /\ repo = "orm"

RaceCall(method, vals) ==
    [method |-> method, vals |-> vals, pc |-> "called", panic |-> FALSE, err |-> NoErr,
     res |-> NilResult, stmts |-> <<>>]

Racing == last.op = "race" /\ (last.deleter.pc # "returned" \/ last.saver.pc # "returned")

SetUp ==
    /\ ~Racing
    /\ \/ DoCreateTable("none")
       \/ DoInsert("none")

\* go repo.Delete(&d); go repo.Save(&s) (or repo.Update(&s)): two models
\* with the same key.
StartRace ==
    /\ ~Racing
    /\ db.exists
    /\ FirstPk(mt) # 0
    /\ \E dv \in KeyedVals[mt], sv \in ValsOf[mt], method \in {"Save", "Update"} :
           /\ dv[FirstPk(mt)] = sv[FirstPk(mt)]
           /\ last' = [op |-> "race", key |-> dv[FirstPk(mt)],
                       hadRow |-> \E r \in db.rows : r.vals[FirstPk(mt)] = dv[FirstPk(mt)],
                       deleter |-> RaceCall("Delete", dv), saver |-> RaceCall(method, sv)]
    /\ UNCHANGED <<adapter, ds, mt, db, repo>>

\* The part of a call before its statement reaches the engine: the table
\* name, the key and the query, read from the model.
Builds(who) ==
    /\ last.op = "race"
    /\ last[who].pc = "called"
    /\ last' = [last EXCEPT ![who].pc = "built"]
    /\ UNCHANGED <<adapter, ds, mt, db, repo>>

\* What the call returns when its statement runs on the database d.
RaceOutcome(c, d) ==
    CASE c.method = "Delete" -> Delete(ds, adapter, d, Model("ptr", mt, c.vals), "none")
      [] c.method = "Save" -> Save(ds, adapter, d, Model("ptr", mt, c.vals), "none")
      [] c.method = "Update" -> Update(ds, adapter, d, Model("ptr", mt, c.vals), "none")

Returned(who, o) ==
    /\ WithinBounds(o)
    /\ db' = o.db
    /\ last' = [last EXCEPT ![who] = [@ EXCEPT !.pc = "returned", !.panic = o.panic,
                                                !.err = o.err, !.res = o.res,
                                                !.stmts = o.stmts]]
    /\ UNCHANGED <<adapter, ds, mt, repo>>

\* The statement of the call runs and the call returns.
Executes(who) ==
    /\ last.op = "race"
    /\ last[who].pc = "built"
    /\ Returned(who, RaceOutcome(last[who], db))

DeleterBuilds == Builds("deleter")
DeleterExecutes == Executes("deleter")
SaverBuilds == Builds("saver")
SaverExecutes == Executes("saver")

NextRace ==
    \/ SetUp
    \/ StartRace
    \/ DeleterBuilds
    \/ DeleterExecutes
    \/ SaverBuilds
    \/ SaverExecutes

SpecRace == InitRace /\ [][NextRace]_vars

(***************************************************************************)
(* Properties of SQL generation: invariants of SpecSQL.                     *)
(***************************************************************************)
\* C7: GetPlaceholder(index) of the SQLite adapter is "?" for every index
\* >= 1; GetPlaceholder(index) of the Postgres adapter is "$" followed by the
\* decimal form of the index: digits only, no leading zero, reading back as
\* the index (1 gives "$1", 10 gives "$10").
C7_Placeholder ==
    last.op = "GetPlaceholder" =>
        /\ adapter = "sqlite" => last.text = <<"?">>
        /\ adapter = "postgres" =>
              /\ Len(last.text) >= 2
              /\ last.text[1] = "$"
              /\ last.text[2] # "0"
              /\ Atoi(Tail(last.text)) = last.id.i
              /\ (last.id.i = 1 => last.text = <<"$","1">>)
              /\ (last.id.i = 10 => last.text = <<"$","1","0">>)

\* The Postgres adapter was asked for the placeholder of index 10.
C7_Witness ==
    /\ last.op = "GetPlaceholder"
    /\ adapter = "postgres"
    /\ last.id.i = 10
    /\ last.text = <<"$","1","0">>

\* The models of C8: the five-field user model with a tagged integer key.
C8_Models == {RepoUser, TaggedTestUser} \cup UserShapes

\* The constraint tags of those models in upper case.
C8_Upper(tag) ==
    CASE tag = <<>> -> <<>>
      [] tag = <<"n","o","t"," ","n","u","l","l">> -> <<"N","O","T"," ","N","U","L","L">>
      [] tag = <<"u","n","i","q","u","e">> -> <<"U","N","I","Q","U","E">>
      [] tag = <<"u","n","i","q","u","e"," ","n","o","t"," ","n","u","l","l">> -> <<"U","N","I","Q","U","E"," ","N","O","T"," ","N","U","L","L">>
      [] tag = <<"n","o","t"," ","n","u","l","l"," ","u","n","i","q","u","e">> -> <<"N","O","T"," ","N","U","L","L"," ","U","N","I","Q","U","E">>

C8_Table(t) ==
    CASE t.name = <<"R","e","p","o","U","s","e","r">> -> <<"r","e","p","o","u","s","e","r">>
      [] t.name = <<"T","e","s","t","U","s","e","r">> -> <<"t","e","s","t","u","s","e","r">>
      [] t.name = <<"M","e","m","b","e","r">> -> <<"m","e","m","b","e","r">>

C8_Columns == <<<<"i","d">>, <<"u","s","e","r","n","a","m","e">>, <<"e","m","a","i","l">>, <<"a","g","e">>, <<"i","s","a","c","t","i","v","e">>>>

C8_Types(a) ==
    <<IF a = "sqlite" THEN <<<<"I","N","T","E","G","E","R">>, <<"P","R","I","M","A","R","Y">>, <<"K","E","Y">>>>
      ELSE <<<<"S","E","R","I","A","L">>, <<"P","R","I","M","A","R","Y">>, <<"K","E","Y">>>>,
      <<<<"T","E","X","T">>>>, <<<<"T","E","X","T">>>>, <<<<"I","N","T","E","G","E","R">>>>, <<<<"B","O","O","L","E","A","N">>>>>>

\* The position of the first "(" of a text.
C8_Open(text) == CHOOSE i \in 1..Len(text) : text[i] = "(" /\ \A j \in 1..(i - 1) : text[j] # "("

\* The statements the adapter test expects for the model named TestUser.
C8_Expected(a) ==
    IF a = "sqlite"
    THEN <<"C","R","E","A","T","E"," ","T","A","B","L","E"," ","I","F"," ","N","O","T"," ","E","X","I","S","T","S"," ","t","e","s","t","u","s","e","r"," ","(","i","d"," ","I","N","T","E","G","E","R"," ","P","R","I","M","A","R","Y"," ","K","E","Y"," ","N","O","T"," ","N","U","L","L",","," ","u","s","e","r","n","a","m","e"," ","T","E","X","T"," ","U","N","I","Q","U","E"," ","N","O","T"," ","N","U","L","L",","," ","e","m","a","i","l"," ","T","E","X","T"," ","N","O","T"," ","N","U","L","L"," ","U","N","I","Q","U","E",","," ","a","g","e"," ","I","N","T","E","G","E","R"," ",","," ","i","s","a","c","t","i","v","e"," ","B","O","O","L","E","A","N"," ",")">>
    ELSE <<"C","R","E","A","T","E"," ","T","A","B","L","E"," ","I","F"," ","N","O","T"," ","E","X","I","S","T","S"," ","t","e","s","t","u","s","e","r"," ","(","i","d"," ","S","E","R","I","A","L"," ","P","R","I","M","A","R","Y"," ","K","E","Y"," ","N","O","T"," ","N","U","L","L",","," ","u","s","e","r","n","a","m","e"," ","T","E","X","T"," ","U","N","I","Q","U","E"," ","N","O","T"," ","N","U","L","L",","," ","e","m","a","i","l"," ","T","E","X","T"," ","N","O","T"," ","N","U","L","L"," ","U","N","I","Q","U","E",","," ","a","g","e"," ","I","N","T","E","G","E","R"," ",","," ","i","s","a","c","t","i","v","e"," ","B","O","O","L","E","A","N"," ",")">>

C24_Signed == {"int", "int8", "int16", "int32", "int64"}

C24_Integers == C24_Signed \cup {"uint", "uint8", "uint16", "uint32", "uint64"}

\* The type name C24 gives a field type, ints being the types it counts as
\* the integer family.
C24_SqlType(a, goType, ints) ==
    CASE goType \in ints -> <<"I","N","T","E","G","E","R">>
      [] goType = "string" -> <<"T","E","X","T">>
      [] goType \in {"float32", "float64"} ->
            IF a = "sqlite" THEN <<"R","E","A","L">> ELSE <<"D","O","U","B","L","E"," ","P","R","E","C","I","S","I","O","N">>
      [] goType = "bool" -> <<"B","O","O","L","E","A","N">>
      [] OTHER -> <<"T","E","X","T">>

\* The type of a column with the primary-key fragment of the adapter.
C24_ColumnType(a, f, ints) ==
    IF f.pk # "true" THEN C24_SqlType(a, f.type, ints)
    ELSE IF a = "postgres" /\ C24_SqlType(a, f.type, ints) = <<"I","N","T","E","G","E","R">>
    THEN <<"S","E","R","I","A","L"," ","P","R","I","M","A","R","Y"," ","K","E","Y">>
    ELSE C24_SqlType(a, f.type, ints) \o <<" ","P","R","I","M","A","R","Y"," ","K","E","Y">>

\* The lowercased field names of the models whose types C24 is checked on.
C24_Column(f) ==
    CASE f.name = <<"I","D">> -> <<"i","d">> [] f.name = <<"U","s","e","r","n","a","m","e">> -> <<"u","s","e","r","n","a","m","e">>
      [] f.name = <<"E","m","a","i","l">> -> <<"e","m","a","i","l">> [] f.name = <<"A","g","e">> -> <<"a","g","e">>
      [] f.name = <<"I","s","A","c","t","i","v","e">> -> <<"i","s","a","c","t","i","v","e">> [] f.name = <<"C","o","d","e">> -> <<"c","o","d","e">>
      [] f.name = <<"V","a","l","u","e">> -> <<"v","a","l","u","e">> [] f.name = <<"R","a","t","i","o">> -> <<"r","a","t","i","o">>
      [] f.name = <<"A","t">> -> <<"a","t">> [] f.name = <<"C","o","u","n","t">> -> <<"c","o","u","n","t">>
      [] f.name = <<"T","i","n","y">> -> <<"t","i","n","y">> [] f.name = <<"S","h","o","r","t">> -> <<"s","h","o","r","t">>
      [] f.name = <<"W","i","d","e">> -> <<"w","i","d","e">> [] f.name = <<"L","o","n","g">> -> <<"l","o","n","g">>

\* What C24 says of one statement of CreateTableSQL: the definition of every
\* column is its name, then the type name of its field type; and the
\* adapters give a field that is neither floating nor the key the same type.
C24_Mapping(ints) ==
    (last.op = "CreateTableSQL" /\ last.form \in {"ptr", "struct"}) =>
        /\ ~last.panic
        /\ last.err = NoErr
        /\ \A i \in 1..NumField(mt) :
               LET f == mt.fields[i]
                   def == C24_Column(f) \o <<" ">> \o C24_ColumnType(adapter, f, ints) \o <<" ">>
               IN Contains(last.text, (IF i = 1 THEN <<"(">> ELSE <<","," ">>) \o def)
        /\ \A i \in 1..NumField(mt) :
               (mt.fields[i].pk # "true" /\ mt.fields[i].type \notin FloatTypes) =>
                  SQLiteColumnType(mt.fields[i]) = PostgresColumnType(mt.fields[i])

\* C24 (as stated): CreateTableSQL maps every integer type, signed or
\* unsigned, to INTEGER, text to TEXT, floating types to REAL under SQLite
\* and DOUBLE PRECISION under Postgres, boolean to BOOLEAN and any other type
\* to TEXT; the adapters differ only in the floating type name and in the
\* primary-key fragment.
C24_TypesAnyInteger == C24_Mapping(C24_Integers)

\* C24 (amended): the same with the signed integer types int, int8, int16,
\* int32 and int64 mapped to INTEGER, the unsigned ones falling under "any
\* other type" and mapped to TEXT.
C24_Types == C24_Mapping(C24_Signed)

\* CreateTableSQL has mapped the four sized signed integers to INTEGER and
\* the unsigned one to TEXT.
C24_Witness ==
    /\ last.op = "CreateTableSQL" /\ last.form = "ptr"
    /\ mt = Widths /\ adapter = "postgres"
    /\ last.err = NoErr
    /\ Fields(last.text) = Fields(<<"C","R","E","A","T","E"," ","T","A","B","L","E"," ","I","F"," ","N","O","T"," ","E","X","I","S","T","S"," ","w","i","d","t","h","s"," ","(","t","i","n","y"," ","I","N","T","E","G","E","R"," ",","," ","s","h","o","r","t"," ","I","N","T","E","G","E","R"," ",","," ","w","i","d","e"," ","I","N","T","E","G","E","R"," ",","," ","l","o","n","g"," ","I","N","T","E","G","E","R"," ",","," ","c","o","u","n","t"," ","T","E","X","T"," ",")">>)

(***************************************************************************)
(* Properties of CreateTable on the test models: invariants of SpecTables. *)
(***************************************************************************)
\* C18: CreateTable for the TestUser model (fields ID, Username, Email, Age,
\* IsActive, db tags beginning with id, username, email, age, is_active)
\* creates a table named test_users whose columns are exactly id, username,
\* email, age and is_active, of types INTEGER, TEXT, TEXT, INTEGER and
\* BOOLEAN.
C18_TestUserTable ==
    (last.op = "CreateTable" /\ mt = TestUser /\ last.form \in {"ptr", "struct"} /\ ds = "ok") =>
        /\ last.err = NoErr
        /\ db.exists
        /\ db.name = <<"t","e","s","t","_","u","s","e","r","s">>
        /\ [i \in 1..Len(db.cols) |-> db.cols[i].name]
               = <<<<"i","d">>, <<"u","s","e","r","n","a","m","e">>, <<"e","m","a","i","l">>, <<"a","g","e">>, <<"i","s","_","a","c","t","i","v","e">>>>
        /\ [i \in 1..Len(db.cols) |-> db.cols[i].type]
               = <<<<"I","N","T","E","G","E","R">>, <<"T","E","X","T">>, <<"T","E","X","T">>, <<"I","N","T","E","G","E","R">>, <<"B","O","O","L","E","A","N">>>>

(***************************************************************************)
(* Properties of the metadata extractor: invariants of SpecMeta.           *)
(***************************************************************************)
\* The lowercased names of the model types.
C15_Names ==
    {<<"i","t","e","m">>, <<"i","t","e","m","6","4">>, <<"i","t","e","m","3","2">>, <<"l","a","b","e","l">>, <<"e","n","t","r","y">>, <<"s","o","l","o">>, <<"m","e","m","o">>, <<"p","a","i","r">>, <<"l","o","o","s","e">>}

\* C15: GetTableName returns the lowercased type name for a struct value and
\* for a pointer to a struct; given nil, a nil pointer, a value that is not
\* a struct or a pointer to one, it fails with an error: it neither panics
\* nor returns a name.
C15_TableName ==
    last.op = "GetTableName" =>
        /\ last.form \in {"ptr", "struct"} =>
               /\ ~last.panic
               /\ last.err = NoErr
               /\ last.text \in C15_Names
               /\ Len(last.text) = Len(mt.name)
               /\ \A i \in 1..Len(mt.name) : last.text[i] = LowerOf[mt.name[i]]
        /\ last.form \notin {"ptr", "struct"} =>
               /\ ~last.panic
               /\ last.err # NoErr
               /\ last.text = <<>>

\* The column of the first field tagged pk:"true" of each model type
\* (<<>>: no field is tagged).
C16_Expected ==
    CASE mt \in {Item, Item64, Item32, Entry, Solo} -> <<"i","d">>
      [] mt \in {Label, Pair} -> <<"c","o","d","e">>
      [] mt = Loose -> <<"k","e","y">>
      [] OTHER -> <<>>

\* C16: GetPrimaryKeyColumn returns the lowercased name of the first field,
\* in declaration order, that carries the tag pk:"true", and no error; it
\* returns an error and no column when no field carries it; when several
\* fields are tagged, the first one is the one returned.
C16_PrimaryKeyColumn ==
    (last.op = "GetPrimaryKeyColumn" /\ last.form \in {"ptr", "struct"}) =>
        /\ ~last.panic
        /\ last.text = C16_Expected
        /\ last.err = NoErr <=> C16_Expected # <<>>

\* The column of a model with two tagged fields was asked for.
C16_Witness ==
    /\ last.op = "GetPrimaryKeyColumn"
    /\ last.form = "ptr"
    /\ mt = Pair
    /\ last.text = <<"c","o","d","e">>
    /\ last.err = NoErr

(***************************************************************************)
(* Properties of OpenDB: invariants of SpecOpen.                           *)
(***************************************************************************)
\* The steps a configuration asks of the machine: the directory when it is
\* missing and the pragma when configured (SQLite only), the open, the ping.
C17_Steps(cfg, env) ==
    {"open", "ping"}
        \cup (IF cfg.DriverName = "sqlite3" /\ ~env.dirExists THEN {"mkdir"} ELSE {})
        \cup (IF cfg.DriverName = "sqlite3" /\ cfg.UseWriteAheadLogs THEN {"wal"} ELSE {})

\* C17: OpenDB returns a non-nil Datastore, with the adapter the driver name
\* selects, only after the open step, the write-ahead-log pragma when
\* configured and the ping have all been taken and have succeeded, the ping
\* last; for an unsupported driver name, or when one of those steps (or the
\* creation of a missing directory) fails, it returns a nil Datastore and a
\* non-nil error.
C17_OpenDB ==
    last.op = "OpenDB" =>
        /\ ~last.nil =>
               /\ last.err = NoErr
               /\ ds = "ok"
               /\ last.cfg.DriverName = "sqlite3" => last.adapter = "sqlite" /\ adapter = "sqlite"
               /\ last.cfg.DriverName = "postgres" =>
                      last.adapter = "postgres" /\ adapter = "postgres"
               /\ last.cfg.DriverName \in {"sqlite3", "postgres"}
               /\ {last.steps[i] : i \in 1..Len(last.steps)} = C17_Steps(last.cfg, last.env)
               /\ last.steps[Len(last.steps)] = "ping"
               /\ \A s \in C17_Steps(last.cfg, last.env) : last.env[s]
        /\ (\/ last.cfg.DriverName \notin {"sqlite3", "postgres"}
            \/ \E s \in C17_Steps(last.cfg, last.env) : ~last.env[s]) =>
               /\ last.nil
               /\ last.err # NoErr
               /\ ds = "nilDS"

\* OpenDB returned a Datastore for SQLite after creating the directory,
\* opening, switching to write-ahead logs and pinging.
C17_Witness ==
    /\ last.op = "OpenDB"
    /\ ~last.nil
    /\ ds = "ok"
    /\ adapter = "sqlite"
    /\ last.steps = <<"mkdir", "open", "wal", "ping">>

(***************************************************************************)
(* Properties of the repository: invariants and step properties of Spec.   *)
(* A step's call and its outcome are in last', the database before it in   *)
(* db, after it in db'.                                                    *)
(***************************************************************************)
\* The value of the key field among a model's field values.
KeyOf(vals) == vals[FirstPk(mt)]

\* The rows of a table whose key column holds k.
RowsWithKey(d, k) == {r \in d.rows : r.vals[FirstPk(mt)] = k}

\* A row holds the model's values in every field but the key.
HoldsNonKey(rowVals, vals) ==
    \A i \in 1..NumField(mt) : i # FirstPk(mt) => rowVals[i] = vals[i]

\* The call sent exactly one statement, of this kind.
Sent(l, kind) == Len(l.stmts) = 1 /\ l.stmts[1].kind = kind

Succeeded(l) == ~l.panic /\ l.err = NoErr

\* The model types with a primary key, and those whose key is an integer.
KeyedTypes == {t \in CrudTypes : FirstPk(t) # 0}
IntegerKeyTypes == {t \in KeyedTypes : t.fields[FirstPk(t)].type \in IntegerTypes}

\* A call of op with a pointer to a model on a working connection whose
\* table exists.
Calls(op) == ds = "ok" /\ db.exists /\ last'.op = op /\ last'.form = "ptr"

\* What C1 claims of one Save of a model whose integer key is zero.
C1_SaveStep ==
    (Calls("Save") /\ mt \in IntegerKeyTypes /\ KeyOf(last'.vals) = IntV(0)) =>
        /\ Succeeded(last')
        /\ Sent(last', "INSERT")
        /\ db.rows \subseteq db'.rows
        /\ Cardinality(db'.rows \ db.rows) = 1
        /\ last'.res.idOk
        /\ last'.res.lastInsertId > 0
        /\ \A r \in db'.rows \ db.rows :
               /\ KeyOf(r.vals) = IntV(last'.res.lastInsertId)
               /\ HoldsNonKey(r.vals, last'.vals)

\* What C1 claims of a FindByID with the reported id right after that Save.
C1_FindStep ==
    (/\ last.op = "Save" /\ Succeeded(last) /\ mt \in IntegerKeyTypes
     /\ KeyOf(last.vals) = IntV(0)
     /\ Calls("FindByID") /\ last'.vals = ZeroVals(mt)
     /\ last'.id = IntV(last.res.lastInsertId)) =>
        /\ Succeeded(last')
        /\ KeyOf(last'.out) = last'.id
        /\ HoldsNonKey(last'.out, last.vals)

\* C1: for every valid model whose (integer) primary key is zero, Save
\* performs an Insert that adds exactly one row, the result's LastInsertId
\* is greater than 0, the new row has that id as its key and the model's
\* values in every other field; and a FindByID with that id right after it
\* fills a fresh model with that key and the saved model's non-key fields.
C1_SaveInsertsZeroKey == [][C1_SaveStep /\ C1_FindStep]_vars

\* C6: for a model whose primary key has any type (int, int64, a narrower
\* integer type, text), Save performs Insert exactly when the key is the
\* zero value of its type, and Update otherwise.
C6_SaveByZeroKey ==
    (last.op = "Save" /\ ds = "ok" /\ mt \in KeyedTypes /\ ~last.panic) =>
        IF KeyOf(last.vals) = ZeroValue(mt.fields[FirstPk(mt)].type)
        THEN Sent(last, "INSERT")
        ELSE \/ Sent(last, "UPDATE")
             \/ last.stmts = <<>> /\ ErrContains(last.err, "no fields to update")

\* What C2 claims of one Save of a model of the given types whose key is
\* not zero: an Update and no Insert, no error, RowsAffected 1 and the row
\* holding the model's non-key values when a row has the key, RowsAffected 0
\* when none has, and as many rows after the call as before it.
C2_Step(types) ==
    (/\ Calls("Save") /\ mt \in types
     /\ KeyOf(last'.vals) # ZeroValue(mt.fields[FirstPk(mt)].type)) =>
        /\ ~Sent(last', "INSERT")
        /\ Succeeded(last')
        /\ Sent(last', "UPDATE")
        /\ (RowsWithKey(db, KeyOf(last'.vals)) # {} =>
               /\ last'.res.rowsAffected = 1
               /\ RowsWithKey(db', KeyOf(last'.vals)) # {}
               /\ \A r \in RowsWithKey(db', KeyOf(last'.vals)) :
                      HoldsNonKey(r.vals, last'.vals))
        /\ (RowsWithKey(db, KeyOf(last'.vals)) = {} => last'.res.rowsAffected = 0)
        /\ Cardinality(db'.rows) = Cardinality(db.rows)

\* The model types that have a field besides the key.
UpdatableTypes == {t \in KeyedTypes : NumField(t) >= 2}

\* C2 (as stated): for every valid model with a non-zero primary key, Save
\* performs an Update and never an Insert, returns no error, reports
\* RowsAffected 1 when a row with that key exists (the row then holds the
\* model's non-key values) and 0 when none exists, and leaves the number of
\* rows unchanged.
C2_SaveUpdatesAnyModel == [][C2_Step(KeyedTypes)]_vars

\* C2 (amended): the same, for every valid model with a non-zero primary
\* key and at least one field besides the key.
C2_SaveUpdates == [][C2_Step(UpdatableTypes)]_vars

\* A Save with a non-zero key has updated the one row with that key, among others.
C2_Witness ==
    /\ last.op = "Save" /\ Succeeded(last) /\ Sent(last, "UPDATE")
    /\ mt \in UpdatableTypes
    /\ last.res.rowsAffected = 1
    /\ Cardinality(db.rows) = 2
    /\ \E r \in RowsWithKey(db, KeyOf(last.vals)) : HoldsNonKey(r.vals, last.vals)

\* C3: FindByID with an id that matches no row returns an error for which
\* errors.Is(err, sql.ErrNoRows) holds and leaves every field of the
\* destination model at the value it had before the call.
C3_NotFound ==
    [][(/\ Calls("FindByID") /\ mt \in KeyedTypes
        /\ RowsWithKey(db, last'.id) = {}) =>
           /\ ~last'.panic
           /\ ErrorsIs(last'.err, ErrNoRows)
           /\ last'.out = last'.vals
           /\ db' = db]_vars

\* FindByID has reported not-found for a used destination while the table
\* holds rows with other keys.
C3_Witness ==
    /\ last.op = "FindByID" /\ last.form = "ptr" /\ ds = "ok"
    /\ mt \in KeyedTypes
    /\ db.rows # {}
    /\ RowsWithKey(db, last.id) = {}
    /\ last.vals = UsedVals(mt)
    /\ ErrorsIs(last.err, ErrNoRows)
    /\ last.out = UsedVals(mt)

\* C4: once Delete of a model with key k has returned successfully no row
\* has key k, and a row with key k is there again only after a step that
\* performed an Insert; a FindByID with key k right after the Delete
\* reports not-found.
C4_DeleteThenFind ==
    [][/\ (last'.op = "Delete" /\ Succeeded(last') /\ mt \in KeyedTypes) =>
              RowsWithKey(db', KeyOf(last'.vals)) = {}
       /\ \A k \in Ids :
              (mt \in KeyedTypes /\ RowsWithKey(db, k) = {} /\ RowsWithKey(db', k) # {}) =>
                  /\ last'.op \in {"Insert", "Save"}
                  /\ Sent(last', "INSERT")
       /\ (/\ last.op = "Delete" /\ Succeeded(last) /\ mt \in KeyedTypes
           /\ last'.op = "FindByID" /\ last'.form = "ptr"
           /\ last'.id = KeyOf(last.vals)) =>
              ErrorsIs(last'.err, ErrNoRows)]_vars

\* A Delete has removed the row with its key and left another row in the table.
C4_Witness ==
    /\ last.op = "Delete" /\ Succeeded(last)
    /\ mt \in KeyedTypes
    /\ last.res.rowsAffected = 1
    /\ db.rows # {}
    /\ RowsWithKey(db, KeyOf(last.vals)) = {}

\* What C5 claims of the last call when it was a FindByID with a model that
\* is not a non-nil pointer to a struct: an error whose message contains
\* "model must be a non-nil pointer to a struct", and no statement sent.
C5_Rejected ==
    (last.op = "FindByID" /\ last.form # "ptr") =>
        /\ ~last.panic
        /\ ErrContains(last.err, NotPtrMsg)
        /\ last.stmts = <<>>

\* C5 (as stated): FindByID called with a model that is not a non-nil
\* pointer to a struct returns an error whose message contains "model must
\* be a non-nil pointer to a struct" and executes no query.
C5_InvalidModelAnyRepository == C5_Rejected

\* C5 (amended): the same, on a repository whose Datastore is not nil.
C5_InvalidModel == ds # "nilDS" => C5_Rejected

\* FindByID has rejected a nil pointer on a connection whose table holds rows.
C5_Witness ==
    /\ last.op = "FindByID" /\ last.form = "nilptr"
    /\ ds = "ok" /\ db.rows # {}
    /\ ErrContains(last.err, NotPtrMsg)
    /\ last.stmts = <<>>

\* C9: CreateTable is idempotent: called for the model whose table exists
\* already, it returns no error and leaves the table and every row in it
\* unchanged.
C9_Idempotent ==
    [][(/\ ds = "ok" /\ db.exists
        /\ last'.op = "CreateTable" /\ last'.form \in {"ptr", "struct"}) =>
           /\ Succeeded(last')
           /\ Sent(last', "CREATE")
           /\ db' = db]_vars

\* A second CreateTable has returned on a table that holds rows.
C9_Witness ==
    /\ last.op = "CreateTable" /\ Succeeded(last)
    /\ db.exists /\ Cardinality(db.rows) = 2

\* C10: CreateTable (and with it the adapter's CreateTableSQL) returns an
\* error and executes no statement when the model is nil or is neither a
\* struct nor a pointer to a struct, and returns no error for a struct value
\* or a pointer to a struct; a nil pointer to a struct, which is both, gets
\* one of the two answers.
C10_ModelValidation ==
    (last.op = "CreateTable" /\ ds = "ok") =>
        /\ ~last.panic
        /\ last.form \in {"nil", "nonstruct", "ptrnonstruct"} =>
               last.err # NoErr /\ last.stmts = <<>>
        /\ last.form \in {"ptr", "struct"} => last.err = NoErr
        /\ last.form = "nilptr" => (last.err # NoErr => last.stmts = <<>>)

\* C14: FindByID, Update and Delete called with a model that has no field
\* tagged pk:"true" each return an error (they do not panic) and send no
\* statement to the database: the table is unchanged and, for FindByID, so
\* are the fields of the model.
C14_NoPrimaryKey ==
    [][(last'.op \in {"FindByID", "Update", "Delete"} /\ last'.form = "ptr" /\ mt = Memo) =>
           /\ ~last'.panic
           /\ last'.err # NoErr
           /\ last'.stmts = <<>>
           /\ db' = db
           /\ last'.op = "FindByID" => last'.out = last'.vals]_vars

\* FindByID was refused for a model without a key, on a working connection
\* whose table exists.
C14_Witness ==
    /\ last.op = "FindByID"
    /\ last.form = "ptr"
    /\ mt = Memo
    /\ ds = "ok"
    /\ db.exists
    /\ ErrContains(last.err, "model must have a primary key field with 'pk' tag")
    /\ last.stmts = <<>>

\* The column names of the model types, field by field.
C19_Columns(t) ==
    CASE t = Item -> <<<<"i","d">>, <<"n","a","m","e">>, <<"q","t","y">>>>
      [] t \in {Item64, Item32} -> <<<<"i","d">>, <<"n","a","m","e">>>>
      [] t = Label -> <<<<"c","o","d","e">>, <<"n","a","m","e">>>>
      [] t = Entry -> <<<<"n","a","m","e">>, <<"i","d">>>>
      [] t = Solo -> <<<<"i","d">>>>
      [] t = Memo -> <<<<"t","e","x","t">>>>

\* The value a row holds in the column of that name.
C19_Cell(d, r, name) == r.vals[CHOOSE k \in 1..Len(d.cols) : d.cols[k].name = name]

C20_NonKey(t) ==
    CASE t = Item -> <<2, 3>>
      [] t \in {Item64, Item32, Label} -> <<2>>
      [] t = Entry -> <<1>>
      [] t = Solo -> <<>>

C20_Key(t) == IF t = Entry THEN 2 ELSE 1

\* The k-th placeholder of the dialect, for k below ten.
C20_Placeholder(a, k) == IF a = "sqlite" THEN <<"?">> ELSE <<"$", ToString(k)>>

\* C20: for a model with n >= 1 non-key columns Update sends one statement
\* with one SET clause per non-key column in declaration order, their
\* placeholders being GetPlaceholder(1)..GetPlaceholder(n), the key column in
\* the WHERE clause with GetPlaceholder(n+1), and exactly n+1 arguments:
\* argument k the value of the column of the k-th SET clause, the last one
\* the value of the key, wherever the key is declared.  A Save that updates
\* sends the same statement.
C20_UpdateStatement ==
    [][(/\ last'.op \in {"Update", "Save"} /\ last'.form = "ptr"
        /\ mt \in KeyedTypes
        /\ Len(C20_NonKey(mt)) >= 1) =>
           LET nonKey == C20_NonKey(mt)
               n == Len(nonKey)
               cols == C19_Columns(mt)
           IN /\ (last'.op = "Update" /\ ds = "ok") => Len(last'.stmts) = 1
              /\ \A j \in 1..Len(last'.stmts) :
                     last'.stmts[j].kind = "UPDATE" =>
                        /\ Len(last'.stmts) = 1
                        /\ last'.stmts[j].cols = [k \in 1..n |-> cols[nonKey[k]]]
                        /\ last'.stmts[j].phs = [k \in 1..n |-> C20_Placeholder(adapter, k)]
                        /\ last'.stmts[j].whereCol = cols[C20_Key(mt)]
                        /\ last'.stmts[j].wherePh = C20_Placeholder(adapter, n + 1)
                        /\ Len(last'.stmts[j].args) = n + 1
                        /\ \A k \in 1..n : last'.stmts[j].args[k] = last'.vals[nonKey[k]]
                        /\ last'.stmts[j].args[n + 1] = last'.vals[C20_Key(mt)]]_vars

\* Update of the type whose key is its second field has changed the row
\* with that key on Postgres: SET name = $1 WHERE id = $2.
C20_Witness ==
    /\ last.op = "Update" /\ last.form = "ptr"
    /\ mt = Entry /\ adapter = "postgres"
    /\ Succeeded(last)
    /\ Len(last.stmts) = 1
    /\ last.stmts[1].cols = <<<<"n","a","m","e">>>>
    /\ last.stmts[1].phs = <<<<"$","1">>>>
    /\ last.stmts[1].wherePh = <<"$","2">>
    /\ last.stmts[1].args = <<last.vals[1], last.vals[2]>>
    /\ last.res.rowsAffected = 1
    /\ \E r \in db.rows : r.vals = last.vals

\* C21: for a model with a primary key, the INSERT statement that Insert (or
\* a Save that inserts) sends lists the non-key columns in declaration
\* order, with the placeholders GetPlaceholder(1)..GetPlaceholder(n) and
\* those columns' values as arguments in the same order; the key column and
\* the model's key value are not in it.
C21_InsertStatement ==
    [][(/\ last'.op \in {"Insert", "Save"} /\ last'.form = "ptr"
        /\ mt \in KeyedTypes) =>
           LET nonKey == C20_NonKey(mt)
               n == Len(nonKey)
               cols == C19_Columns(mt)
           IN /\ (last'.op = "Insert" /\ ds = "ok") => Len(last'.stmts) = 1
              /\ \A j \in 1..Len(last'.stmts) :
                     last'.stmts[j].kind = "INSERT" =>
                        /\ Len(last'.stmts) = 1
                        /\ last'.stmts[j].cols = [k \in 1..n |-> cols[nonKey[k]]]
                        /\ \A k \in 1..n : last'.stmts[j].cols[k] # cols[C20_Key(mt)]
                        /\ last'.stmts[j].phs = [k \in 1..n |-> C20_Placeholder(adapter, k)]
                        /\ last'.stmts[j].args = [k \in 1..n |-> last'.vals[nonKey[k]]]
                        /\ last'.stmts[j].whereCol = <<>>]_vars

\* Insert of a model of the type whose key is its second field, its key set
\* to 2, has added a row from a statement that carries the name alone.
C21_Witness ==
    /\ last.op = "Insert" /\ last.form = "ptr"
    /\ mt = Entry
    /\ Succeeded(last)
    /\ last.vals[2] = IntV(2)
    /\ Len(last.stmts) = 1
    /\ last.stmts[1].kind = "INSERT"
    /\ last.stmts[1].cols = <<<<"n","a","m","e">>>>
    /\ last.stmts[1].args = <<last.vals[1]>>
    /\ db.rows # {}

\* C22: under Postgres the statement of Insert carries RETURNING <key
\* column> exactly when the model has a primary key, and a successful
\* Insert then returns a result whose LastInsertId is the returned key of
\* the row it added and whose RowsAffected is 1; without a primary key the
\* plain INSERT is executed and the result is the engine's own, which has
\* no LastInsertId.  Under SQLite no statement carries RETURNING.
C22_Returning ==
    [][(last'.op = "Insert" /\ last'.form = "ptr" /\ ds = "ok") =>
           /\ Len(last'.stmts) = 1
           /\ last'.stmts[1].kind = "INSERT"
           /\ adapter = "sqlite" => last'.stmts[1].returning = <<>>
           /\ (adapter = "postgres" /\ mt \in KeyedTypes) =>
                  /\ last'.stmts[1].returning = C19_Columns(mt)[C20_Key(mt)]
                  /\ Succeeded(last') =>
                         /\ ~last'.res.nil
                         /\ last'.res.idOk
                         /\ last'.res.rowsAffected = 1
                         /\ \E r \in db'.rows \ db.rows :
                                /\ db'.rows = db.rows \cup {r}
                                /\ r.vals[C20_Key(mt)] = IntV(last'.res.lastInsertId)
           /\ (adapter = "postgres" /\ mt \notin KeyedTypes) =>
                  /\ last'.stmts[1].returning = <<>>
                  /\ Succeeded(last') =>
                         /\ ~last'.res.nil
                         /\ ~last'.res.idOk
                         /\ last'.res.rowsAffected = 1
                         /\ Cardinality(db'.rows) = Cardinality(db.rows) + 1]_vars

\* A second Insert under Postgres has returned the synthetic result with
\* the key 2 that RETURNING id gave.
C22_Witness ==
    /\ last.op = "Insert" /\ last.form = "ptr" /\ ds = "ok"
    /\ adapter = "postgres" /\ mt = Entry
    /\ Succeeded(last)
    /\ last.stmts[1].returning = <<"i","d">>
    /\ last.res.idOk /\ last.res.lastInsertId = 2 /\ last.res.rowsAffected = 1
    /\ \E r \in db.rows : r.vals = <<last.vals[1], IntV(2)>>

\* What C23 says of one Update or Delete of a model with a key, for the
\* model types given to Update: the rows with another key stay as they are
\* and no row is added; Update keeps the number of rows and Delete adds none;
\* when no row has the model's key the call succeeds with 0 rows affected
\* and the table is unchanged; when one has, Delete succeeds with 1 row
\* affected and that row is gone.
C23_Step(types) ==
    (/\ ds = "ok" /\ db.exists /\ last'.form = "ptr"
     /\ \/ last'.op = "Delete" /\ mt \in KeyedTypes
        \/ last'.op = "Update" /\ mt \in types) =>
        LET hit == RowsWithKey(db, KeyOf(last'.vals))
        IN /\ Cardinality(hit) <= 1
           /\ \A r \in db.rows \ hit : r \in db'.rows
           /\ \A r \in db'.rows \ db.rows :
                  /\ last'.op = "Update"
                  /\ r.vals[FirstPk(mt)] = KeyOf(last'.vals)
                  /\ \E h \in hit : h.rowid = r.rowid /\ h \notin db'.rows
           /\ last'.op = "Update" => Cardinality(db'.rows) = Cardinality(db.rows)
           /\ hit = {} =>
                  /\ Succeeded(last')
                  /\ ~last'.res.nil /\ last'.res.rowsAffected = 0
                  /\ db' = db
           /\ (hit # {} /\ last'.op = "Delete") =>
                  /\ Succeeded(last')
                  /\ last'.res.rowsAffected = 1
                  /\ db'.rows = db.rows \ hit

\* C23 (as stated): Update and Delete of any model with a key are scoped to
\* the row with the model's key: other rows are unchanged; with no such row
\* they return no error, report 0 rows affected and leave the table
\* unchanged; when the row exists Delete reports 1 row affected.
C23_ScopedAnyModel == [][C23_Step(KeyedTypes)]_vars

\* Update of a model with no field but its key sends nothing and fails.
C23_KeyOnly ==
    (/\ ds = "ok" /\ db.exists /\ last'.form = "ptr" /\ last'.op = "Update"
     /\ mt \in KeyedTypes \ UpdatableTypes) =>
        /\ ~last'.panic
        /\ last'.err = NewErr("no fields to update")
        /\ last'.stmts = <<>>
        /\ db' = db

\* C23 (amended): the same, Update being given a model with at least one
\* field besides the key; Update of a model with no field but its key
\* returns the error "no fields to update", sends no statement and leaves
\* the table unchanged.
C23_Scoped == [][C23_Step(UpdatableTypes) /\ C23_KeyOnly]_vars

\* Delete has removed the row with the model's key and left the other row,
\* and the table now holds that other row alone.
C23_Witness ==
    /\ last.op = "Delete" /\ last.form = "ptr" /\ ds = "ok"
    /\ mt \in UpdatableTypes
    /\ Succeeded(last)
    /\ last.res.rowsAffected = 1
    /\ Cardinality(db.rows) = 1
    /\ RowsWithKey(db, KeyOf(last.vals)) = {}

\* C26: Save of a model without a primary-key tag sends the INSERT of all
\* the model's fields and never an UPDATE, on every call, and each
\* successful Save adds one row holding the model's values: n Saves of the
\* same model leave n such rows.
C26_SaveWithoutKey ==
    [][(Calls("Save") /\ mt \notin KeyedTypes) =>
           /\ ~last'.panic
           /\ Sent(last', "INSERT")
           /\ last'.stmts[1].cols = C19_Columns(mt)
           /\ last'.stmts[1].args = last'.vals
           /\ Succeeded(last')
           /\ \E r \in db'.rows \ db.rows :
                  /\ db'.rows = db.rows \cup {r}
                  /\ r.vals = last'.vals
           /\ Cardinality(db'.rows) = Cardinality(db.rows) + 1]_vars

\* Two Saves of the same model without a key have left two rows with its
\* values.
C26_Witness ==
    /\ last.op = "Save" /\ last.form = "ptr" /\ ds = "ok"
    /\ mt \notin KeyedTypes
    /\ Succeeded(last)
    /\ Cardinality(db.rows) = 2
    /\ \A r \in db.rows : r.vals = last.vals

C29_MissingHandle ==
    [][(/\ ds \in {"nilDS", "nilDB", "nilAdapter"}
        /\ last'.op \in {"Save", "FindByID", "Update", "Delete", "CreateTable", "Insert"}
        /\ last'.form = "ptr") =>
           /\ ~last'.panic
           /\ last'.err # NoErr
           /\ last'.stmts = <<>>
           /\ db' = db]_vars

(***************************************************************************)
(* Properties of the ORMDataStore: invariants and step properties of       *)
(* SpecStore.                                                              *)
(***************************************************************************)
StoreOps == {"GetUserByID", "SaveUser", "DeleteUser"}

\* err wraps the error the Repository returned: errors.Is(err, repoErr).
WrapsRepoErr(l) == l.err # NoErr /\ ErrorsIs(l.err, l.repoErr)

\* C11: GetUserByID returns (nil user, nil error) exactly when the
\* Repository's FindByID reports not-found (errors.Is(err, sql.ErrNoRows),
\* the sentinel itself or an error wrapping it); for any other FindByID
\* error it returns a nil user and an error that wraps the Repository's
\* error; on success it returns the user FindByID populated and a nil error.
C11_GetUserByID ==
    (last.op = "GetUserByID" /\ repo # "nil" /\ ~last.panic) =>
        /\ (last.user.nil /\ last.err = NoErr) <=> ErrorsIs(last.repoErr, ErrNoRows)
        /\ (last.repoErr # NoErr /\ ~ErrorsIs(last.repoErr, ErrNoRows)) =>
               last.user.nil /\ WrapsRepoErr(last)
        /\ last.repoErr = NoErr =>
               /\ ~last.user.nil
               /\ last.err = NoErr
               /\ repo = "mock" =>
                      last.user.vals = IF last.answer.fill
                                       THEN <<last.id, StrV("a"), IntV(7)>>
                                       ELSE <<IntV(0), StrV(""), IntV(0)>>

\* FindByID returned an error wrapping sql.ErrNoRows, and GetUserByID
\* returned (nil, nil).
C11_Witness ==
    /\ last.op = "GetUserByID"
    /\ repo = "mock"
    /\ last.repoErr # ErrNoRows
    /\ ErrorsIs(last.repoErr, ErrNoRows)
    /\ last.user.nil
    /\ last.err = NoErr

\* C12: when the ORMDataStore's Repository is nil, each of GetUserByID,
\* SaveUser and DeleteUser returns an error whose message is exactly
\* "repository is nil", without panicking, without calling any Repository
\* method and without touching the database.
C12_NilRepository ==
    [][(repo = "nil" /\ last'.op \in StoreOps) =>
           /\ ~last'.panic
           /\ last'.err = <<"repository is nil">>
           /\ last'.user.nil
           /\ last'.calls = <<>>
           /\ last'.stmts = <<>>
           /\ db' = db]_vars

\* SaveUser answered on a nil Repository.
C12_Witness ==
    /\ repo = "nil"
    /\ last.op = "SaveUser"
    /\ last.form = "ptr"
    /\ last.err = <<"repository is nil">>

\* C13: SaveUser(user) calls the Repository's Save exactly once, with that
\* user; DeleteUser(id) calls the Repository's Delete exactly once, with a
\* pointer to a User whose ID is id and whose other fields are zero; each
\* returns nil when the Repository call returned no error and otherwise an
\* error that wraps the Repository's error.
C13_SaveDeleteUser ==
    /\ (last.op = "SaveUser" /\ repo # "nil") =>
           last.calls = <<[method |-> "Save", form |-> last.form, vals |-> last.vals,
                           id |-> IntV(0)]>>
    /\ (last.op = "DeleteUser" /\ repo # "nil") =>
           last.calls = <<[method |-> "Delete", form |-> "ptr",
                           vals |-> <<last.id, StrV(""), IntV(0)>>, id |-> IntV(0)]>>
    /\ (last.op \in {"SaveUser", "DeleteUser"} /\ repo # "nil" /\ ~last.panic) =>
           /\ last.repoErr = NoErr => last.err = NoErr
           /\ last.repoErr # NoErr => WrapsRepoErr(last)

\* DeleteUser(2) passed on the error of the Repository's Delete.
C13_Witness ==
    /\ last.op = "DeleteUser"
    /\ repo = "mock"
    /\ last.id = IntV(2)
    /\ last.calls[1].vals[1] = IntV(2)
    /\ last.repoErr = <<"database connection failed">>
    /\ WrapsRepoErr(last)

\* The rows of the user table whose id column holds id.
C28_UsersWithID(d, id) == {r \in d.rows : r.vals[1] = id}

\* SaveUser of a user with ID 0 adds a row with a generated id and the
\* user's name and age.
C28_Save ==
    (last'.op = "SaveUser" /\ last'.form = "ptr" /\ last'.vals[1] = IntV(0)) =>
        /\ ~last'.panic /\ last'.err = NoErr
        /\ \E r \in db'.rows \ db.rows :
               /\ db'.rows = db.rows \cup {r}
               /\ r.vals[1].t = "int" /\ r.vals[1].i > 0
               /\ r.vals[2] = last'.vals[2] /\ r.vals[3] = last'.vals[3]

\* GetUserByID(k) returns the user of the row with id k.
C28_Get ==
    (last'.op = "GetUserByID" /\ C28_UsersWithID(db, last'.id) # {}) =>
        /\ ~last'.panic /\ last'.err = NoErr
        /\ ~last'.user.nil
        /\ \E r \in C28_UsersWithID(db, last'.id) : r.vals = last'.user.vals

\* DeleteUser(k) returns nil and removes the row with id k.
C28_Delete ==
    (last'.op = "DeleteUser" /\ C28_UsersWithID(db, last'.id) # {}) =>
        /\ ~last'.panic /\ last'.err = NoErr
        /\ C28_UsersWithID(db', last'.id) = {}

\* C28: an ORMDataStore over an ORMRepository works with the User model:
\* SaveUser of a user with ID 0 adds a row with a generated id k,
\* GetUserByID(k) returns that user, and DeleteUser(k) returns nil and
\* removes the row.
C28_UserRoundTrip ==
    [][(repo = "orm" /\ ds = "ok" /\ db.exists) =>
           C28_Save /\ C28_Get /\ C28_Delete]_vars

(***************************************************************************)
(* Properties of the repository over a failing engine: step properties of  *)
(* SpecFaults.                                                             *)
(***************************************************************************)
C25_Ops == {"Save", "Insert", "FindByID", "Update", "Delete"}

\* What C25 says of one call, lookupOps being the operations for which a
\* model without a primary key is a failure: the call sends at most one
\* statement; when the primary-key lookup fails it returns an error and
\* sends nothing; when the statement it sends fails (at Prepare or at
\* execution, the scan of the row included, or because the table is
\* missing) it returns an error and no result.
C25_Step(lookupOps) ==
    (last'.op \in C25_Ops /\ last'.form = "ptr" /\ ds = "ok") =>
        /\ Len(last'.stmts) <= 1
        /\ (mt \notin KeyedTypes /\ last'.op \in lookupOps) =>
               /\ ~last'.panic
               /\ last'.err # NoErr
               /\ last'.stmts = <<>>
               /\ db' = db
        /\ (last'.stmts # <<>> /\ (last'.fail # "none" \/ ~db.exists)) =>
               /\ ~last'.panic
               /\ last'.err # NoErr
               /\ last'.res.nil
               /\ db' = db

\* Save and Insert of a model without a primary key send the INSERT of all
\* its columns.
C25_FallsBack ==
    (/\ last'.op \in {"Save", "Insert"} /\ last'.form = "ptr" /\ ds = "ok"
     /\ mt \notin KeyedTypes) =>
        /\ Len(last'.stmts) = 1
        /\ last'.stmts[1].kind = "INSERT"
        /\ last'.stmts[1].cols = C19_Columns(mt)
        /\ last'.stmts[1].args = last'.vals

\* C25 (as stated): whenever an internal step of Save, Insert, FindByID,
\* Update or Delete fails (primary-key lookup, statement preparation,
\* execution or row scan) the operation returns an error, retries nothing
\* and executes no further statement.
C25_NoErrorSwallowed == [][C25_Step(C25_Ops)]_vars

\* C25 (amended): the same, the failed primary-key lookup being an error for
\* FindByID, Update and Delete only; Save and Insert take a model without a
\* primary key for one to insert whole, and send that INSERT.
C25_ErrorsReturned == [][C25_Step({"FindByID", "Update", "Delete"}) /\ C25_FallsBack]_vars

\* Update has returned the wrapped error of a statement that failed at
\* execution, the row it aimed at still as it was.
C25_Witness ==
    /\ last.op = "Update" /\ last.form = "ptr" /\ ds = "ok"
    /\ last.fail = "exec"
    /\ Len(last.stmts) = 1
    /\ last.err = Wrap("failed to execute exec statement", EngineErr)
    /\ last.res.nil
    /\ \E r \in RowsWithKey(db, KeyOf(last.vals)) : ~HoldsNonKey(r.vals, last.vals)

(***************************************************************************)
(* Properties of two callers sharing one Datastore: invariants of SpecRace.*)
(***************************************************************************)
\* C30: when Delete of a model with the non-zero key k and Save or Update
\* of a model with the same key run concurrently while a row with key k
\* exists, then, whatever the order of their statements, both calls return
\* no error and no row has key k once both have returned: the Save sends an
\* UPDATE and never an INSERT.
C30_DeleteWins ==
    (/\ last.op = "race"
     /\ last.hadRow
     /\ last.key # ZeroValue(mt.fields[FirstPk(mt)].type)) =>
        /\ \A j \in 1..Len(last.saver.stmts) : last.saver.stmts[j].kind = "UPDATE"
        /\ (last.deleter.pc = "returned" /\ last.saver.pc = "returned") =>
               /\ ~last.deleter.panic /\ last.deleter.err = NoErr
               /\ ~last.saver.panic /\ last.saver.err = NoErr
               /\ RowsWithKey(db, last.key) = {}

\* Both calls have returned, the Delete having removed the row before the
\* statement of the Save ran and found no row to update.
C30_Witness ==
    /\ last.op = "race"
    /\ last.hadRow
    /\ last.key = IntV(1)
    /\ last.saver.method = "Save"
    /\ last.deleter.pc = "returned" /\ last.saver.pc = "returned"
    /\ last.deleter.err = NoErr /\ last.deleter.res.rowsAffected = 1
    /\ last.saver.err = NoErr /\ last.saver.res.rowsAffected = 0
    /\ Sent(last.saver, "UPDATE")
    /\ RowsWithKey(db, last.key) = {}

====
